---- MODULE Spec2Model ----
(***************************************************************************)
(* Model of the scraper's extraction and type-inference core               *)
(* (src/scraper/types.py, src/scraper/extraction.py) and of the pipeline    *)
(* around it (scraper_engine.py, config.py, api.py).                       *)
(*                                                                         *)
(* A Python str is a sequence of one-character strings.  A Python value    *)
(* is a record [t, v] tagged with its type: "str", "bool", "int", "float", *)
(* "list" or "none".                                                       *)
(***************************************************************************)
EXTENDS Integers, Sequences, FiniteSets, TLC

VARIABLES
    value,          \* types.py: the argument of the TypeConverter call
    called,         \* which method was called directly ("" before the call)
    returned,       \* the value the call returned
    html_content,   \* extract_fields: the html argument (a str, or None)
    site_config,    \* extract_fields: [priority_fields, extra_fields, site_type]
    lxml,           \* whether `from lxml import html` succeeds in this runtime
    pc,             \* where extract_fields is: start, priority, extra, returned, raised
    soup,           \* the parsed document (its nodes)
    idx,            \* position of the running for loop in its section
    priority_fields,\* dict field name -> converted value
    extra_metadata, \* dict field name -> converted value
    field_status,   \* FieldStatus: the lists extracted, failed, not_found
    metadata,       \* ExtractionMetadata: success, failure_reason, site_type
    result,         \* the ExtractionResult returned, or the exception raised
    arg_rule,       \* extraction.py: the rule argument of a direct call
    arg_soup,       \* extraction.py: the soup argument of a direct call (its nodes)
    calls,          \* concurrent extract_fields calls on one engine: per call its
                    \* arguments, position, soup, loop index and result
    frames,         \* the accumulators (priority_fields, extra_metadata,
                    \* field_status) each call created
    max_retries,    \* scraper_engine.py: self._max_retries
    attempt,        \* fetch_content: the local attempt
    last_error,     \* fetch_content: the local last_error
    backoff_seconds,\* fetch_content: the local backoff_seconds of the running sleep
    fetch_pc,       \* where fetch_content is: loop, sleep, returned, raised
    fetch_log,      \* the outcomes of the _fetch_with_timeout calls made, in order
    fetch_causes,   \* what happened to the request of each of these calls, in order
    fetch_result,   \* the content fetch_content returned, or the exception it raised
    api_args,       \* api.py: the arguments url, config_file and output_path
    api_pc,         \* where scrape_facility is: the phase to run next, returned, raised
    api_started,    \* the phases scrape_facility has started, in order
    api_locals,     \* the locals scraper_config, normalized_url, site_config,
                    \* html_content, extraction_result and toml_output
    api_failed,     \* the phase an exception ended ("" while none did)
    api_exc,        \* the exception that ended a phase (None while none did)
    api_written,    \* whether the output file was written
    api_result,     \* the local result: success, data, metadata, error
    reg_file,       \* registry_manager.py: the sites of the JSON registry file, in order
    reg_db,         \* the rows of the SQLite sites table, in order of rowid
    reg_call,       \* the last RegistryManager call: method, argument, outcome
    sched_file,     \* schedule_manager.py: the schedules of the JSON file, in order
    sched_db,       \* the rows of the SQLite schedules table, in order of rowid
    sched_now,      \* datetime.now(timezone.utc) at the last ScheduleManager call
    sched_call,     \* the last ScheduleManager call: method, site_id, outcome
    procs,          \* concurrent ScheduleManager calls: per process its method,
                    \* site_id, position, loaded list and outcome
    results_db,     \* result_archiver.py: the rows of the results table with the
                    \* result_fields of each, in order of id
    detect_call     \* the last detect_changes call: url, date1, date2, changes

inferVars == <<value, called, returned>>

extractVars == <<html_content, site_config, lxml, pc, soup, idx, priority_fields,
                 extra_metadata, field_status, metadata, result>>

ruleVars == <<arg_rule, arg_soup>>

\* the state of the components outside the TypeConverter and extract_fields
callsVars == <<calls, frames>>

fetchVars == <<max_retries, attempt, last_error, backoff_seconds, fetch_pc, fetch_log,
               fetch_causes, fetch_result>>

apiVars == <<api_args, api_pc, api_started, api_locals, api_failed, api_exc, api_written,
             api_result>>

adminVars == <<reg_file, reg_db, reg_call, sched_file, sched_db, sched_now, sched_call,
               procs, results_db, detect_call>>

laterVars == <<ruleVars, callsVars, fetchVars, apiVars, adminVars>>

vars == <<inferVars, extractVars, laterVars>>

(***************************************************************************)
(* Bounds                                                                  *)
(***************************************************************************)
\* longest enumerated input string of the TypeConverter calls
MaxLen == 4

\* most fields a site configures, priority and extra sections together
MaxFields == 2

\* longest enumerated rule string of the parse_rule calls
MaxRuleLen == 3

\* largest configured max_retries
MaxRetries == 3

(***************************************************************************)
(* Python values                                                           *)
(***************************************************************************)
PyStr(s) == [t |-> "str", v |-> s]

PyBool(b) == [t |-> "bool", v |-> b]

PyInt(n) == [t |-> "int", v |-> n]

\* a float m * 10^e, normalised: m = 0 /\ e = 0, or m not a multiple of 10, or e > 0
PyFloat(m, e) == [t |-> "float", v |-> <<m, e>>]

PyList(l) == [t |-> "list", v |-> l]

PyNone == [t |-> "none", v |-> <<>>]

(***************************************************************************)
(* str methods                                                             *)
(***************************************************************************)
Whitespace == {" ", "\t", "\n"}

UpperCase == <<"A","B","C","D","E","F","G","H","I","J","K","L","M",
               "N","O","P","Q","R","S","T","U","V","W","X","Y","Z">>

LowerCase == <<"a","b","c","d","e","f","g","h","i","j","k","l","m",
               "n","o","p","q","r","s","t","u","v","w","x","y","z">>

Digits == <<"0","1","2","3","4","5","6","7","8","9">>

IsDigit(c) == \E i \in 1..10 : Digits[i] = c

DigitValue(c) == (CHOOSE i \in 1..10 : Digits[i] = c) - 1

\* str.lower() on one character
LowerChar(c) ==
    IF \E i \in 1..26 : UpperCase[i] = c
    THEN LowerCase[CHOOSE i \in 1..26 : UpperCase[i] = c]
    ELSE c

IsLetter(c) == \E i \in 1..26 : LowerCase[i] = c \/ UpperCase[i] = c

\* str.lower()
Lower(s) == [i \in 1..Len(s) |-> LowerChar(s[i])]

RECURSIVE LStrip(_)
\* str.lstrip()
LStrip(s) ==
    IF s # <<>> /\ Head(s) \in Whitespace THEN LStrip(Tail(s)) ELSE s

RECURSIVE RStrip(_)
\* str.rstrip()
RStrip(s) ==
    IF s # <<>> /\ s[Len(s)] \in Whitespace
    THEN RStrip(SubSeq(s, 1, Len(s) - 1))
    ELSE s

\* str.strip()
Strip(s) == RStrip(LStrip(s))

\* `c in s` for a one-character c
Contains(s, c) == \E i \in 1..Len(s) : s[i] = c

RECURSIVE SplitAcc(_, _, _)
\* pieces of s cut at every sep; cur is the piece being read
SplitAcc(s, sep, cur) ==
    IF s = <<>> THEN <<cur>>
    ELSE IF Head(s) = sep THEN <<cur>> \o SplitAcc(Tail(s), sep, <<>>)
    ELSE SplitAcc(Tail(s), sep, Append(cur, Head(s)))

\* str.split(sep) for a one-character sep: always at least one piece
Split(s, sep) == SplitAcc(s, sep, <<>>)

RECURSIVE NonEmpty(_)
\* [p for p in parts if p]
NonEmpty(parts) ==
    IF parts = <<>> THEN <<>>
    ELSE IF Head(parts) # <<>> THEN <<Head(parts)>> \o NonEmpty(Tail(parts))
    ELSE NonEmpty(Tail(parts))

(***************************************************************************)
(* int() and float() on a str                                              *)
(***************************************************************************)
\* the text after an optional leading sign
Unsigned(s) == IF s # <<>> /\ Head(s) \in {"+", "-"} THEN Tail(s) ELSE s

\* -1 for a leading "-", else 1
SignOf(s) == IF s # <<>> /\ Head(s) = "-" THEN -1 ELSE 1

\* a digit part: digits, single underscores allowed between two digits
IsDigitPart(b) ==
    /\ b # <<>>
    /\ IsDigit(b[1])
    /\ IsDigit(b[Len(b)])
    /\ \A i \in 1..Len(b) : IsDigit(b[i]) \/ b[i] = "_"
    /\ \A i \in 1..(Len(b) - 1) : ~(b[i] = "_" /\ b[i + 1] = "_")

RECURSIVE DigitsNum(_, _)
\* the number written by the digits of b (underscores skipped), after acc
DigitsNum(b, acc) ==
    IF b = <<>> THEN acc
    ELSE IF Head(b) = "_" THEN DigitsNum(Tail(b), acc)
    ELSE DigitsNum(Tail(b), acc * 10 + DigitValue(Head(b)))

\* how many digits b holds
DigitCount(b) == Cardinality({i \in 1..Len(b) : IsDigit(b[i])})

\* the integer literal with sign sg and unsigned text b
IntOf(sg, b) ==
    IF IsDigitPart(b) THEN [ok |-> TRUE, n |-> sg * DigitsNum(b, 0)]
    ELSE [ok |-> FALSE, n |-> 0]

\* int(s): [ok |-> FALSE] stands for ValueError
ParseInt(s) == IntOf(SignOf(Strip(s)), Unsigned(Strip(s)))

RECURSIVE Normalise(_, _)
\* m * 10^e with the trailing zeros of m moved into e
Normalise(m, e) ==
    IF m = 0 THEN <<0, 0>>
    ELSE IF m % 10 = 0 THEN Normalise(m \div 10, e + 1)
    ELSE <<m, e>>

\* index of the first exponent marker of b, 0 if none
ExpIndex(b) ==
    IF \E i \in 1..Len(b) : b[i] \in {"e", "E"}
    THEN CHOOSE i \in 1..Len(b) :
            /\ b[i] \in {"e", "E"}
            /\ \A j \in 1..(i - 1) : b[j] \notin {"e", "E"}
    ELSE 0

\* the float literal with sign sg, integer part ip, fraction part fp and
\* exponent text ex (hasExp tells whether an exponent marker was written)
FloatOf(sg, ip, fp, hasExp, ex) ==
    IF /\ ~hasExp \/ IsDigitPart(Unsigned(ex))
       /\ ip = <<>> \/ IsDigitPart(ip)
       /\ fp = <<>> \/ IsDigitPart(fp)
       /\ ip # <<>> \/ fp # <<>>
    THEN [ok |-> TRUE,
          n |-> Normalise(sg * DigitsNum(ip \o fp, 0),
                          (IF hasExp THEN SignOf(ex) * DigitsNum(Unsigned(ex), 0) ELSE 0)
                              - DigitCount(fp))]
    ELSE [ok |-> FALSE, n |-> <<0, 0>>]

\* the float literal whose mantissa splits at "." into the pieces ps
FloatOfPieces(sg, ps, hasExp, ex) ==
    IF Len(ps) > 2 THEN [ok |-> FALSE, n |-> <<0, 0>>]
    ELSE FloatOf(sg, ps[1], IF Len(ps) = 2 THEN ps[2] ELSE <<>>, hasExp, ex)

\* the float literal with unsigned text b whose exponent marker is at k (0: none)
FloatAt(sg, b, k) ==
    FloatOfPieces(sg, Split(IF k = 0 THEN b ELSE SubSeq(b, 1, k - 1), "."),
                  k # 0, IF k = 0 THEN <<>> ELSE SubSeq(b, k + 1, Len(b)))

\* the float literal with sign sg and unsigned text b
FloatOfUnsigned(sg, b) == FloatAt(sg, b, ExpIndex(b))

\* float(s) for a decimal literal: [ok |-> FALSE] stands for ValueError
ParseFloat(s) == FloatOfUnsigned(SignOf(Strip(s)), Unsigned(Strip(s)))

(***************************************************************************)
(* TypeConverter (types.py)                                                *)
(***************************************************************************)
\* convert_to_bool: True/False for a recognised word, else the value itself
convert_to_bool(val) ==
    LET normalized == Lower(Strip(val)) IN
    IF normalized \in {<<"y","e","s">>, <<"t","r","u","e">>, <<"1">>} THEN PyBool(TRUE)
    ELSE IF normalized \in {<<"n","o">>, <<"f","a","l","s","e">>, <<"0">>} THEN PyBool(FALSE)
    ELSE PyStr(val)

\* an exception of class cls leaving a call
PyExc(cls) == [t |-> "exc", v |-> cls]

\* the value of a parsed integer literal, or ValueError
IntResult(p) == IF p.ok THEN PyInt(p.n) ELSE PyExc("ValueError")

\* int(v), raising ValueError on text that is no integer literal
IntCall(v) == IntResult(ParseInt(v))

\* the value of a parsed float literal, or ValueError
FloatResult(p) == IF p.ok THEN PyFloat(p.n[1], p.n[2]) ELSE PyExc("ValueError")

\* float(v), raising ValueError on text that is no float literal
FloatCall(v) == FloatResult(ParseFloat(v))

\* `except ValueError: return value` around the result r of the try body
ExceptValueError(r, v) == IF r.t = "exc" /\ r.v = "ValueError" THEN PyStr(v) ELSE r

\* NumberOf trying float() on every text int() rejects
NumberOfFloatFallback(v) ==
    ExceptValueError(IF IntCall(v).t = "int" THEN IntCall(v) ELSE FloatCall(v), v)

\* the stripped, non-empty text v as a number: int without ".", float with "."
NumberOf(v) ==
    ExceptValueError(IF ~Contains(v, ".") THEN IntCall(v) ELSE FloatCall(v), v)

\* convert_to_number: a number, else the stripped value
convert_to_number(val) ==
    IF Strip(val) = <<>> THEN PyStr(Strip(val)) ELSE NumberOf(Strip(val))

\* [part.strip() for part in value.split(sep)]
StrippedParts(v, sep) == LET ps == Split(v, sep) IN [i \in 1..Len(ps) |-> Strip(ps[i])]

\* the separators with the semicolon tried first
SeparatorsSemicolonFirst == <<";", ",", "|">>

\* default separators of convert_to_list
Separators == <<",", ";", "|">>

RECURSIVE ListLoop(_, _)
\* the for loop of convert_to_list over the separators seps
ListLoop(v, seps) ==
    IF seps = <<>> THEN PyStr(v)
    ELSE IF Contains(v, Head(seps))
         THEN LET non_empty == NonEmpty(StrippedParts(v, Head(seps))) IN
              IF Len(non_empty) > 1 THEN PyList(non_empty)
              ELSE IF Len(non_empty) = 1 THEN PyStr(non_empty[1])
              ELSE ListLoop(v, Tail(seps))
         ELSE ListLoop(v, Tail(seps))

\* convert_to_list with the default separators
convert_to_list(val) ==
    LET v == Strip(val) IN
    IF v = <<>> THEN PyStr(v) ELSE ListLoop(v, Separators)

\* convert_to_string without the strip
convert_to_string_unstripped(val) == PyStr(val)

\* convert_to_string
convert_to_string(val) == PyStr(Strip(val))

\* infer_and_convert trying the number before the boolean
infer_number_first(val) ==
    IF Strip(val) = <<>> THEN PyStr(val)
    ELSE LET num_result == convert_to_number(val) IN
         IF num_result.t # "str" THEN num_result
         ELSE LET bool_result == convert_to_bool(val) IN
              IF bool_result.t = "bool" THEN bool_result
              ELSE LET list_result == convert_to_list(val) IN
                   IF list_result.t = "list" THEN list_result
                   ELSE convert_to_string(val)

\* infer_and_convert: boolean, number, list, string, first success wins
infer_and_convert(val) ==
    IF Strip(val) = <<>> THEN PyStr(val)
    ELSE LET bool_result == convert_to_bool(val) IN
         IF bool_result.t = "bool" THEN bool_result
         ELSE LET num_result == convert_to_number(val) IN
              \* any non-str result is returned; an exception propagates
              IF num_result.t # "str" THEN num_result
              ELSE LET list_result == convert_to_list(val) IN
                   IF list_result.t = "list" THEN list_result
                   ELSE convert_to_string(val)

(***************************************************************************)
(* RuleParser (extraction.py)                                              *)
(***************************************************************************)
\* str.startswith(prefix)
StartsWith(s, prefix) ==
    Len(s) >= Len(prefix) /\ SubSeq(s, 1, Len(prefix)) = prefix

\* str.endswith(suffix)
EndsWith(s, suffix) ==
    Len(s) >= Len(suffix) /\ SubSeq(s, Len(s) - Len(suffix) + 1, Len(s)) = suffix

\* `not rule or not isinstance(rule, str)`
NoRule(rule) == rule.t # "str" \/ rule.v = <<>>

\* str(rule) for the values a rule can be
StrOf(rule) == IF rule.t = "str" THEN rule.v ELSE <<"N","o","n","e">>

\* RuleParser.parse_rule: <<rule_type, pattern>>
parse_rule(rule) ==
    IF NoRule(rule) THEN <<"unknown", StrOf(rule)>>
    ELSE LET r == Strip(rule.v) IN
         IF StartsWith(r, <<"/","/">>) THEN <<"xpath", r>>
         ELSE IF (StartsWith(r, <<"/">>) /\ EndsWith(r, <<"/">>)) \/ StartsWith(r, <<"^">>)
              THEN <<"regex", r>>
              ELSE <<"css", r>>

(***************************************************************************)
(* The document: BeautifulSoup(html, "html.parser") and str(soup)          *)
(*                                                                         *)
(* A document is a flat sequence of nodes [tag, text]; a node with an      *)
(* empty tag is text outside any element.                                  *)
(***************************************************************************)
\* index of the first c in s, Len(s) + 1 if none
IndexOf(s, c) ==
    IF Contains(s, c)
    THEN CHOOSE i \in 1..Len(s) : s[i] = c /\ \A j \in 1..(i - 1) : s[j] # c
    ELSE Len(s) + 1

\* s from index i on
From(s, i) == SubSeq(s, i, Len(s))

RECURSIVE ParseNodes(_)
\* the nodes of the markup s: <tag>text</tag> elements and bare text
ParseNodes(s) ==
    IF s = <<>> THEN <<>>
    ELSE IF Head(s) = "<"
         THEN LET gt    == IndexOf(s, ">")
                  tag   == SubSeq(s, 2, gt - 1)
                  body  == From(s, gt + 1)
                  lt    == IndexOf(body, "<")
                  text  == SubSeq(body, 1, lt - 1)
                  close == From(body, lt)
                  rest  == From(close, IndexOf(close, ">") + 1)
              IN  <<[tag |-> tag, text |-> text]>> \o ParseNodes(rest)
         ELSE LET lt == IndexOf(s, "<") IN
              <<[tag |-> <<>>, text |-> SubSeq(s, 1, lt - 1)]>> \o ParseNodes(From(s, lt))

\* html.parser rejects the markup: it holds a marked section "<![keyword]" whose
\* keyword begins like none of temp, cdata, ignore, include, rcdata, if, else, endif
RejectsMarkup(s) ==
    \E i \in 1..(Len(s) - 4) : \E j \in (i + 4)..Len(s) :
        /\ SubSeq(s, i, i + 2) = <<"<","!","[">>
        /\ s[j] = "]"
        /\ \A k \in (i + 3)..(j - 1) : IsLetter(s[k])
        /\ LowerChar(s[i + 3]) \notin {"t", "c", "i", "r", "e"}

\* BeautifulSoup(markup, "html.parser"): raises on a non-str argument and on
\* markup the parser rejects
BeautifulSoup(markup) ==
    IF markup.t # "str" THEN PyExc("TypeError")
    ELSE IF RejectsMarkup(markup.v) THEN PyExc("ParserRejectedMarkup")
    ELSE [t |-> "soup", v |-> ParseNodes(markup.v)]

RECURSIVE Serialize(_)
\* str(soup)
Serialize(nodes) ==
    IF nodes = <<>> THEN <<>>
    ELSE LET n == Head(nodes) IN
         (IF n.tag = <<>> THEN n.text
          ELSE <<"<">> \o n.tag \o <<">">> \o n.text \o <<"<","/">> \o n.tag \o <<">">>)
         \o Serialize(Tail(nodes))

(***************************************************************************)
(* The query engines behind the extractor                                  *)
(***************************************************************************)
\* a type selector / element name: one or more letters
IsName(s) == s # <<>> /\ \A i \in 1..Len(s) : IsLetter(s[i])

RECURSIVE TextsOf(_, _)
\* the texts of the elements named tag, in document order
TextsOf(nodes, tag) ==
    IF nodes = <<>> THEN <<>>
    ELSE IF Head(nodes).tag # <<>> /\ Lower(Head(nodes).tag) = Lower(tag)
         THEN <<Head(nodes).text>> \o TextsOf(Tail(nodes), tag)
         ELSE TextsOf(Tail(nodes), tag)

\* soup.select(selector): the matched elements' texts, or SelectorSyntaxError
\* for a selector that is no type selector (empty, or malformed such as "p[")
Select(nodes, selector) ==
    IF IsName(selector) THEN [t |-> "elems", v |-> TextsOf(nodes, selector)]
    ELSE PyExc("SelectorSyntaxError")

\* lxml_html.fromstring(str(soup)).xpath(xpath) for //name paths: ParserError
\* on an empty document, XPathEvalError on a malformed path
XPath(nodes, xpath) ==
    IF Strip(Serialize(nodes)) = <<>> THEN PyExc("ParserError")
    ELSE IF IsName(From(xpath, 3)) THEN [t |-> "elems", v |-> TextsOf(nodes, From(xpath, 3))]
    ELSE PyExc("XPathEvalError")

RECURSIVE StripChar(_, _)
\* str.strip(c): every leading and trailing c removed
StripChar(s, c) ==
    IF s # <<>> /\ Head(s) = c THEN StripChar(Tail(s), c)
    ELSE IF s # <<>> /\ s[Len(s)] = c THEN StripChar(SubSeq(s, 1, Len(s) - 1), c)
    ELSE s

RECURSIVE ParenDepthOk(_, _)
\* the parentheses of pattern p balance (d are open)
ParenDepthOk(p, d) ==
    IF p = <<>> THEN d = 0
    ELSE IF Head(p) = "(" THEN ParenDepthOk(Tail(p), d + 1)
    ELSE IF Head(p) = ")" THEN d > 0 /\ ParenDepthOk(Tail(p), d - 1)
    ELSE ParenDepthOk(Tail(p), d)

\* pattern p without its group parentheses
Ungroup(p) == SelectSeq(p, LAMBDA c : c \notin {"(", ")"})

\* the items q (literals and ".") match text at index i, ignoring case
MatchesAt(q, text, i) ==
    /\ i + Len(q) - 1 <= Len(text)
    /\ \A k \in 1..Len(q) :
          \/ q[k] = "." /\ text[i + k - 1] # "\n"
          \/ LowerChar(q[k]) = LowerChar(text[i + k - 1])

\* re.search(p, text, re.IGNORECASE) for patterns of literals, ".", groups and
\* a leading "^": group(0) of the first match, None, or re.error
Search(p, text) ==
    IF ~ParenDepthOk(p, 0) THEN PyExc("re.error")
    ELSE LET u        == Ungroup(p)
             anchored == u # <<>> /\ Head(u) = "^"
             q        == IF anchored THEN Tail(u) ELSE u
             starts   == {i \in 1..(Len(text) + 1) :
                             MatchesAt(q, text, i) /\ (anchored => i = 1)}
         IN  IF starts = {} THEN PyNone
             ELSE LET i == CHOOSE i \in starts : \A j \in starts : i <= j IN
                  PyStr(SubSeq(text, i, i + Len(q) - 1))

(***************************************************************************)
(* ExtractionEngine: the per-field extractor (extraction.py)               *)
(***************************************************************************)
RECURSIVE JoinCommaSpace(_)
\* ", ".join(texts)
JoinCommaSpace(texts) ==
    IF texts = <<>> THEN <<>>
    ELSE IF Len(texts) = 1 THEN texts[1]
    ELSE texts[1] \o <<",", " ">> \o JoinCommaSpace(Tail(texts))

\* _extract_css returning the first matched text only
extract_css_first_text(nodes, selector) ==
    LET elements == Select(nodes, selector) IN
    IF elements.t = "exc" THEN PyExc("ExtractionError")
    ELSE IF elements.v = <<>> THEN PyNone
    ELSE LET texts == NonEmpty([i \in 1..Len(elements.v) |-> Strip(elements.v[i])]) IN
         IF texts = <<>> THEN PyNone ELSE PyStr(texts[1])

\* _extract_css
extract_css(nodes, selector) ==
    LET elements == Select(nodes, selector) IN
    \* except Exception: raise ExtractionError
    IF elements.t = "exc" THEN PyExc("ExtractionError")
    ELSE IF elements.v = <<>> THEN PyNone
    ELSE LET texts == NonEmpty([i \in 1..Len(elements.v) |-> Strip(elements.v[i])]) IN
         IF texts = <<>> THEN PyNone
         ELSE IF Len(texts) > 1 THEN PyStr(JoinCommaSpace(texts))
         ELSE PyStr(texts[1])

\* _extract_xpath without its ImportError handler: the general handler wraps it
extract_xpath_import_wrapped(nodes, xpath, lx) ==
    IF ~lx THEN PyExc("ExtractionError")
    ELSE LET results == XPath(nodes, xpath) IN
         IF results.t = "exc" THEN PyExc("ExtractionError")
         ELSE IF results.v = <<>> THEN PyNone
         ELSE PyStr(results.v[1])

\* _extract_xpath; lx says whether `from lxml import html` succeeds
extract_xpath(nodes, xpath, lx) ==
    \* except ImportError: return None
    IF ~lx THEN PyNone
    ELSE LET results == XPath(nodes, xpath) IN
         \* except Exception: raise ExtractionError
         IF results.t = "exc" THEN PyExc("ExtractionError")
         ELSE IF results.v = <<>> THEN PyNone
         ELSE PyStr(results.v[1])

\* _extract_regex
extract_regex(nodes, pattern) ==
    LET clean_pattern == IF StartsWith(pattern, <<"/">>)
                         THEN StripChar(pattern, "/")
                         ELSE Strip(pattern)
        match == Search(clean_pattern, Serialize(nodes))
    IN  \* except Exception: raise ExtractionError
        IF match.t = "exc" THEN PyExc("ExtractionError") ELSE match

\* _extract_single_field: a str, None, or the exception raised
extract_single_field(nodes, rule, lx) ==
    IF NoRule(rule) THEN PyNone
    ELSE LET parsed == parse_rule(rule) IN
         IF parsed[1] = "css" THEN extract_css(nodes, parsed[2])
         ELSE IF parsed[1] = "xpath" THEN extract_xpath(nodes, parsed[2], lx)
         ELSE IF parsed[1] = "regex" THEN extract_regex(nodes, parsed[2])
         ELSE PyNone

(***************************************************************************)
(* ExtractionEngine.extract_fields (extraction.py)                         *)
(***************************************************************************)
\* FieldStatus()
EmptyStatus == [extracted |-> <<>>, failed |-> <<>>, not_found |-> <<>>]

\* the try body of one iteration of a field loop: what it records for a field
\* with this rule, or the exception that leaves it (status "raise")
FieldBody(nodes, rule, lx) ==
    LET val == extract_single_field(nodes, rule, lx) IN
    IF val.t = "exc" THEN [status |-> "raise", converted |-> val]
    ELSE IF val.t = "str" /\ Strip(val.v) # <<>>
         THEN LET converted == infer_and_convert(val.v) IN
              IF converted.t = "exc" THEN [status |-> "raise", converted |-> converted]
              ELSE [status |-> "extracted", converted |-> converted]
         ELSE [status |-> "not_found", converted |-> PyNone]

\* FieldOutcome without its handler: the exception leaves the loop
FieldOutcomeUncaught(nodes, rule, lx) == FieldBody(nodes, rule, lx)

\* FieldOutcome without the `value.strip()` test: any returned str counts as a match
FieldOutcomeBlankExtracted(nodes, rule, lx) ==
    LET val == extract_single_field(nodes, rule, lx) IN
    IF val.t = "exc" THEN [status |-> "failed", converted |-> PyNone]
    ELSE IF val.t = "str"
         THEN [status |-> "extracted", converted |-> infer_and_convert(val.v)]
         ELSE [status |-> "not_found", converted |-> PyNone]

\* one iteration with its handler: `except Exception` catches whatever the body
\* raises and records the field as failed
FieldOutcome(nodes, rule, lx) ==
    LET body == FieldBody(nodes, rule, lx) IN
    IF body.status = "raise" THEN [status |-> "failed", converted |-> PyNone]
    ELSE body

\* list.append(name) on the status list st
StatusAppend(fs, st, name) == [fs EXCEPT ![st] = Append(@, name)]

\* d[name] = val on a dict
DictSet(d, name, val) == (name :> val) @@ d

\* Success computed as "nothing failed" instead of "something extracted"
SuccessNothingFailed(fs) == Len(fs.failed) = 0

\* the overall success flag computed from the status lists
Success(fs) == Len(fs.extracted) > 0

\* the extraction engine is not in a call
ExtractIdle ==
    /\ html_content = PyNone
    /\ site_config = [priority_fields |-> <<>>, extra_fields |-> <<>>, site_type |-> ""]
    /\ lxml = FALSE
    /\ pc = "idle"
    /\ soup = <<>>
    /\ idx = 0
    /\ priority_fields = <<>>
    /\ extra_metadata = <<>>
    /\ field_status = EmptyStatus
    /\ metadata = [success |-> FALSE, failure_reason |-> PyNone, site_type |-> ""]
    /\ result = PyNone

\* lines 76-87: parse the html, raise ParsingError or initialise the result structures
ParseHtml ==
    /\ pc = "start"
    /\ LET parsed == BeautifulSoup(html_content) IN
       IF parsed.t = "exc"
       THEN /\ pc' = "raised"
            /\ result' = PyExc("ParsingError")
            /\ UNCHANGED <<soup, idx, priority_fields, extra_metadata, field_status, metadata>>
       ELSE /\ soup' = parsed.v
            /\ priority_fields' = <<>>
            /\ extra_metadata' = <<>>
            /\ field_status' = EmptyStatus
            /\ metadata' = [success |-> FALSE, failure_reason |-> PyNone,
                            site_type |-> site_config.site_type]
            /\ pc' = "priority"
            /\ idx' = 1
            /\ UNCHANGED result
    /\ UNCHANGED <<laterVars, inferVars, html_content, site_config, lxml>>

\* lines 89-104: one iteration of the priority loop, or its end
PriorityLoop ==
    /\ pc = "priority"
    /\ IF idx <= Len(site_config.priority_fields)
       THEN LET f == site_config.priority_fields[idx]
                o == FieldOutcome(soup, f.rule, lxml)
            IN  IF o.status = "raise"
                THEN \* an exception no handler caught leaves extract_fields
                     /\ pc' = "raised"
                     /\ result' = o.converted
                     /\ UNCHANGED <<field_status, priority_fields, idx>>
                ELSE /\ field_status' = StatusAppend(field_status, o.status, f.name)
                     /\ priority_fields' = IF o.status = "extracted"
                                           THEN DictSet(priority_fields, f.name, o.converted)
                                           ELSE priority_fields
                     /\ idx' = idx + 1
                     /\ UNCHANGED <<pc, result>>
       ELSE /\ pc' = "extra"
            /\ idx' = 1
            /\ UNCHANGED <<field_status, priority_fields, result>>
    /\ UNCHANGED <<laterVars, inferVars, html_content, site_config, lxml, soup, extra_metadata,
                   metadata>>

\* lines 106-119: one iteration of the extra loop
ExtraLoop ==
    /\ pc = "extra"
    /\ idx <= Len(site_config.extra_fields)
    /\ LET f == site_config.extra_fields[idx]
           o == FieldOutcome(soup, f.rule, lxml)
       IN  IF o.status = "raise"
           THEN \* an exception no handler caught leaves extract_fields
                /\ pc' = "raised"
                /\ result' = o.converted
                /\ UNCHANGED <<field_status, extra_metadata, idx>>
           ELSE /\ field_status' = StatusAppend(field_status, o.status, f.name)
                /\ extra_metadata' = IF o.status = "extracted"
                                     THEN DictSet(extra_metadata, f.name, o.converted)
                                     ELSE extra_metadata
                /\ idx' = idx + 1
                /\ UNCHANGED <<pc, result>>
    /\ UNCHANGED <<laterVars, inferVars, html_content, site_config, lxml, soup, priority_fields,
                   metadata>>

\* lines 121-135: determine overall success and return the ExtractionResult
ReturnResult ==
    /\ pc = "extra"
    /\ LET success == Success(field_status)
           md == [metadata EXCEPT !.success = success,
                                  !.failure_reason =
                                      IF ~success
                                      THEN PyStr(<<"n","o","_","f","i","e","l","d","s","_",
                                                   "e","x","t","r","a","c","t","e","d">>)
                                      ELSE @]
       IN  /\ metadata' = md
           /\ result' = [t |-> "result",
                         v |-> [success |-> success,
                                priority_fields |-> priority_fields,
                                extra_metadata |-> extra_metadata,
                                metadata |-> md,
                                fields_status |-> field_status,
                                error |-> PyNone]]
    /\ pc' = "returned"
    /\ UNCHANGED <<laterVars, inferVars, html_content, site_config, lxml, soup, idx, priority_fields,
                   extra_metadata, field_status>>

\* Finish returning from inside the extra loop, before it has ended
FinishInsideLoop == ReturnResult

\* the extra loop has ended: extract_fields returns
Finish ==
    /\ idx > Len(site_config.extra_fields)
    /\ ReturnResult

(***************************************************************************)
(* Components that are not in use                                          *)
(***************************************************************************)
\* no direct call of the rule parser or the extractor was made
RuleIdle == arg_rule = PyNone /\ arg_soup = <<>>

\* every component outside the TypeConverter and extract_fields is idle
\* no concurrent calls are running
CallsIdle == calls = <<>> /\ frames = <<>>

\* no fetch is running
FetchIdle ==
    /\ max_retries = 0
    /\ attempt = 0
    /\ last_error = PyNone
    /\ backoff_seconds = 0
    /\ fetch_pc = "idle"
    /\ fetch_log = <<>>
    /\ fetch_causes = <<>>
    /\ fetch_result = PyNone

\* the result dict of lines 67-72
InitialResult ==
    [success |-> FALSE,
     data |-> [priority_fields |-> <<>>, extra_metadata |-> <<>>],
     metadata |-> <<>>,
     error |-> PyNone]

\* the locals of scrape_facility before they are assigned
NoLocals ==
    [scraper_config |-> PyNone, normalized_url |-> PyNone, site_config |-> PyNone,
     html_content |-> PyNone, extraction_result |-> PyNone, toml_output |-> PyNone]

\* scrape_facility was not called
ApiIdle ==
    /\ api_args = [url |-> PyNone, config_file |-> PyNone, output_path |-> PyNone]
    /\ api_pc = "idle"
    /\ api_started = <<>>
    /\ api_locals = NoLocals
    /\ api_failed = ""
    /\ api_exc = PyNone
    /\ api_written = FALSE
    /\ api_result = InitialResult

\* no call was made (models.py, registry_manager.py, schedule_manager.py)
NoCall == [op |-> "", arg |-> <<>>, out |-> PyNone]

\* the registry file and the sites table are empty and no call was made
RegistryIdle == reg_file = <<>> /\ reg_db = <<>> /\ reg_call = NoCall

\* the schedules file and table are empty, no call was made or is running
ScheduleIdle ==
    /\ sched_file = <<>>
    /\ sched_db = <<>>
    /\ sched_now = <<>>
    /\ sched_call = NoCall
    /\ procs = <<>>

\* nothing was archived and detect_changes was not called
ArchiveIdle == results_db = <<>> /\ detect_call = NoCall

AdminIdle == RegistryIdle /\ ScheduleIdle /\ ArchiveIdle

LaterIdle == RuleIdle /\ CallsIdle /\ FetchIdle /\ ApiIdle /\ AdminIdle

(***************************************************************************)
(* Calls of extract_fields on enumerated documents and rule sets           *)
(***************************************************************************)
FieldNames == {"name", "hours"}

\* the rules a site may configure: selectors, paths and patterns, well-formed
\* and malformed, and the values that are no rule
RuleSamples ==
    { PyStr(<<"p">>), PyStr(<<"p","[">>),
      PyStr(<<"/","/","b">>), PyStr(<<"/","/","[">>),
      PyStr(<<"/","a","/">>), PyStr(<<"/","(","/">>),
      PyStr(<<>>), PyStr(<<" ">>), PyNone }

\* the html arguments: documents, the empty document, and None
HtmlSamples ==
    { PyStr(<<"<","p",">","a","<","/","p",">","<","p",">","b","<","/","p",">",
              "<","b",">"," ","<","/","b",">">>),
      PyStr(<<"<","p",">","3","<","/","p",">","<","b",">","1","<","/","b",">">>),
      PyStr(<<>>),
      PyNone }

\* the sections of exactly k fields: field names are unique within a section
Sections(k) ==
    {s \in [1..k -> [name : FieldNames, rule : RuleSamples]] :
        \A i, j \in 1..k : i # j => s[i].name # s[j].name}

\* the site configurations of np priority and ne extra fields
SiteConfigs(np, ne) ==
    {[priority_fields |-> p, extra_fields |-> e, site_type |-> "fablab"] :
        p \in Sections(np), e \in Sections(ne)}

InitExtract ==
    /\ html_content \in HtmlSamples
    /\ \E np \in 0..MaxFields : \E ne \in 0..(MaxFields - np) :
          site_config \in SiteConfigs(np, ne)
    /\ lxml \in BOOLEAN
    /\ pc = "start"
    /\ soup = <<>>
    /\ idx = 0
    /\ priority_fields = <<>>
    /\ extra_metadata = <<>>
    /\ field_status = EmptyStatus
    /\ metadata = [success |-> FALSE, failure_reason |-> PyNone, site_type |-> ""]
    /\ result = PyNone
    /\ value = <<>>
    /\ called = ""
    /\ returned = PyNone
    /\ LaterIdle

NextExtract == ParseHtml \/ PriorityLoop \/ ExtraLoop \/ Finish

Spec == InitExtract /\ [][NextExtract]_vars

(***************************************************************************)
(* Calls of the TypeConverter on enumerated inputs                         *)
(***************************************************************************)
\* the characters the enumerated inputs are built from
Alphabet == {" ", "1", "0", ".", ",", ";", "|", "a", "n", "O"}

\* every str over Alphabet of length at most n
StringsUpTo(n) == UNION {[1..k -> Alphabet] : k \in 0..n}

\* inputs of the repository's tests and documentation (test_types.py, types.py)
Samples ==
    { <<"y","e","s">>, <<"n","o">>, <<"Y","E","S">>, <<"N","O">>,
      <<"t","r","u","e">>, <<"f","a","l","s","e">>, <<"T","R","U","E">>,
      <<"F","A","L","S","E">>, <<" ","T","r","u","e","\t">>,
      <<"m","a","y","b","e">>, <<"1","2","3">>, <<"-","4","5">>, <<"4","2">>,
      <<"3">>, <<"3",".","0">>, <<"3",".","1","4">>, <<"-","2",".","5">>,
      <<"1","2",".","3","4",".","5","6">>, <<"1","_","0">>, <<"1","e","5">>,
      <<"1",".","5","e","2">>, <<"+","7">>, <<"\n","1","\n">>,
      <<"a",","," ","b",","," ","c">>, <<"a",";"," ","b",";","c">>,
      <<"a","|","b","|","c">>, <<"s","i","n","g","l","e">>,
      <<" ","a"," ",","," ","b"," ">>, <<"a",",","b",";","c">>,
      <<"a",";","b",",","c">>, <<",",";","a","|","b">>,
      <<"j","u","s","t"," ","a">> }

Inputs == StringsUpTo(MaxLen) \cup Samples

InitInfer ==
    /\ value \in Inputs
    /\ called = ""
    /\ returned = PyNone
    /\ ExtractIdle
    /\ LaterIdle

\* TypeConverter.infer_and_convert(value)
CallInfer ==
    /\ called = ""
    /\ called' = "infer_and_convert"
    /\ returned' = infer_and_convert(value)
    /\ UNCHANGED <<value, extractVars, laterVars>>

\* TypeConverter.convert_to_list(value)
CallList ==
    /\ called = ""
    /\ called' = "convert_to_list"
    /\ returned' = convert_to_list(value)
    /\ UNCHANGED <<value, extractVars, laterVars>>

NextInfer == CallInfer \/ CallList

SpecInfer == InitInfer /\ [][NextInfer]_vars

(***************************************************************************)
(* Direct calls of RuleParser.parse_rule and of the per-field extractor    *)
(***************************************************************************)
\* the characters the enumerated rule strings are built from
RuleAlphabet == {" ", "/", "^", "p", "["}

\* every rule string over RuleAlphabet of length at most n
RuleStrings(n) == UNION {[1..k -> RuleAlphabet] : k \in 0..n}

\* the arguments parse_rule is called with: rule strings, and None
RuleInputs == {PyStr(r) : r \in RuleStrings(MaxRuleLen)} \cup RuleSamples

\* the documents the extractor is called on: several matches, matches with
\* blank or padded text, and the empty document
DocSamples ==
    { <<"<","p",">","a","<","/","p",">","<","p",">","b","<","/","p",">",
        "<","b",">"," ","<","/","b",">">>,
      <<"<","p",">"," ","a"," ","<","/","p",">","<","p",">"," ","<","/","p",">",
        "<","p",">","b","<","/","p",">","<","p",">","c","<","/","p",">">>,
      <<"<","p",">"," ","<","/","p",">","<","b",">","x"," ","<","/","b",">">>,
      <<"<","p",">","3","<","/","p",">","<","b",">","1","<","/","b",">">>,
      <<>> }

\* the rules the extractor is called with directly
ExtractRuleInputs ==
    RuleSamples \cup {PyStr(<<"b">>), PyStr(<<" ", "p", " ">>),
                      PyStr(<<"/","a","/","/">>), PyStr(<<"/","(","p",")",">","/">>),
                      PyStr(<<"^","<","P">>), PyStr(<<"^","a">>)}

InitRule ==
    /\ value = <<>>
    /\ called = ""
    /\ returned = PyNone
    /\ ExtractIdle
    /\ RuleIdle
    /\ CallsIdle
    /\ FetchIdle
    /\ ApiIdle
    /\ AdminIdle

\* RuleParser.parse_rule(rule)
CallParseRule ==
    /\ called = ""
    /\ \E r \in RuleInputs :
          /\ arg_rule' = r
          /\ returned' = [t |-> "tuple", v |-> parse_rule(r)]
    /\ called' = "parse_rule"
    /\ UNCHANGED <<value, extractVars, arg_soup, callsVars, fetchVars, apiVars, adminVars>>

\* ExtractionEngine._extract_single_field(soup, rule), with or without lxml
CallExtractSingleField ==
    /\ called = ""
    /\ \E r \in ExtractRuleInputs, d \in DocSamples, lx \in BOOLEAN :
          /\ arg_rule' = r
          /\ arg_soup' = ParseNodes(d)
          /\ lxml' = lx
          /\ returned' = extract_single_field(ParseNodes(d), r, lx)
    /\ called' = "_extract_single_field"
    /\ UNCHANGED <<value, html_content, site_config, pc, soup, idx, priority_fields,
                   extra_metadata, field_status, metadata, result, callsVars, fetchVars, apiVars,
                   adminVars>>

NextRule == CallParseRule \/ CallExtractSingleField

SpecRule == InitRule /\ [][NextRule]_vars

(***************************************************************************)
(* Two extract_fields calls on one ExtractionEngine, interleaved           *)
(***************************************************************************)
CallIds == {1, 2}

\* the rules of the interleaved calls: a selector, a malformed selector, a path
CallRules == {PyStr(<<"p">>), PyStr(<<"p","[">>), PyStr(<<"/","/","b">>)}

\* a section of at most one field with the given name
CallSections(name) == {<<>>} \cup {<<[name |-> name, rule |-> r]>> : r \in CallRules}

\* the arguments of an interleaved call
CallInputs ==
    [html_content : {PyStr(<<"<","p",">","a","<","/","p",">","<","p",">","b","<","/","p",">",
                             "<","b",">"," ","<","/","b",">">>),
                     PyStr(<<"<","p",">","3","<","/","p",">","<","b",">","1","<","/","b",">">>),
                     PyNone},
     site_config : {[priority_fields |-> ps, extra_fields |-> es, site_type |-> "fablab"] :
                        ps \in CallSections("name"), es \in CallSections("hours")}]

\* the accumulators every call shares
AccumulatorShared(c) == 1

\* the accumulators call c works on: locals of its own invocation (lines 84-86)
AccumulatorOf(c) == c

\* the locals created at lines 84-86
NewFrame == [priority_fields |-> <<>>, extra_metadata |-> <<>>, field_status |-> EmptyStatus]

InitCalls ==
    /\ \E args \in [CallIds -> CallInputs] :
          calls = [c \in CallIds |->
                      [html_content |-> args[c].html_content,
                       site_config |-> args[c].site_config,
                       pc |-> "start", soup |-> <<>>, idx |-> 0, result |-> PyNone]]
    /\ frames = [c \in CallIds |-> NewFrame]
    /\ lxml \in BOOLEAN
    /\ html_content = PyNone
    /\ site_config = [priority_fields |-> <<>>, extra_fields |-> <<>>, site_type |-> ""]
    /\ pc = "idle"
    /\ soup = <<>>
    /\ idx = 0
    /\ priority_fields = <<>>
    /\ extra_metadata = <<>>
    /\ field_status = EmptyStatus
    /\ metadata = [success |-> FALSE, failure_reason |-> PyNone, site_type |-> ""]
    /\ result = PyNone
    /\ value = <<>>
    /\ called = ""
    /\ returned = PyNone
    /\ RuleIdle
    /\ FetchIdle
    /\ ApiIdle
    /\ AdminIdle

\* lines 76-87 in call c: parse the html and create the accumulators
CallParse(c) ==
    /\ calls[c].pc = "start"
    /\ LET parsed == BeautifulSoup(calls[c].html_content) IN
       IF parsed.t = "exc"
       THEN /\ calls' = [calls EXCEPT ![c].pc = "raised", ![c].result = PyExc("ParsingError")]
            /\ UNCHANGED frames
       ELSE /\ calls' = [calls EXCEPT ![c].soup = parsed.v, ![c].pc = "priority", ![c].idx = 1]
            /\ frames' = [frames EXCEPT ![AccumulatorOf(c)] = NewFrame]
    /\ UNCHANGED <<inferVars, extractVars, ruleVars, fetchVars, apiVars, adminVars>>

\* lines 89-104 in call c: one iteration of the priority loop, or its end
CallPriority(c) ==
    /\ calls[c].pc = "priority"
    /\ IF calls[c].idx <= Len(calls[c].site_config.priority_fields)
       THEN LET f == calls[c].site_config.priority_fields[calls[c].idx]
                o == FieldOutcome(calls[c].soup, f.rule, lxml)
                a == AccumulatorOf(c)
            IN  /\ frames' = [frames EXCEPT
                       ![a].field_status = StatusAppend(@, o.status, f.name),
                       ![a].priority_fields = IF o.status = "extracted"
                                              THEN DictSet(@, f.name, o.converted) ELSE @]
                /\ calls' = [calls EXCEPT ![c].idx = @ + 1]
       ELSE /\ calls' = [calls EXCEPT ![c].pc = "extra", ![c].idx = 1]
            /\ UNCHANGED frames
    /\ UNCHANGED <<inferVars, extractVars, ruleVars, fetchVars, apiVars, adminVars>>

\* lines 106-119 in call c: one iteration of the extra loop
CallExtra(c) ==
    /\ calls[c].pc = "extra"
    /\ calls[c].idx <= Len(calls[c].site_config.extra_fields)
    /\ LET f == calls[c].site_config.extra_fields[calls[c].idx]
           o == FieldOutcome(calls[c].soup, f.rule, lxml)
           a == AccumulatorOf(c)
       IN  /\ frames' = [frames EXCEPT
                  ![a].field_status = StatusAppend(@, o.status, f.name),
                  ![a].extra_metadata = IF o.status = "extracted"
                                        THEN DictSet(@, f.name, o.converted) ELSE @]
           /\ calls' = [calls EXCEPT ![c].idx = @ + 1]
    /\ UNCHANGED <<inferVars, extractVars, ruleVars, fetchVars, apiVars, adminVars>>

\* lines 121-135 in call c: the loop has ended, return the ExtractionResult
CallReturn(c) ==
    /\ calls[c].pc = "extra"
    /\ calls[c].idx > Len(calls[c].site_config.extra_fields)
    /\ LET acc == frames[AccumulatorOf(c)] IN
       calls' = [calls EXCEPT
                    ![c].pc = "returned",
                    ![c].result = [t |-> "result",
                                   v |-> [success |-> Success(acc.field_status),
                                          priority_fields |-> acc.priority_fields,
                                          extra_metadata |-> acc.extra_metadata,
                                          fields_status |-> acc.field_status,
                                          error |-> PyNone]]]
    /\ UNCHANGED <<frames, inferVars, extractVars, ruleVars, fetchVars, apiVars, adminVars>>

NextCalls ==
    \E c \in CallIds : CallParse(c) \/ CallPriority(c) \/ CallExtra(c) \/ CallReturn(c)

SpecCalls == InitCalls /\ [][NextCalls]_vars

(***************************************************************************)
(* ScrapingEngine.fetch_content (scraper_engine.py)                        *)
(***************************************************************************)
\* what one _fetch_with_timeout call can do: return content, raise NetworkTimeout
\* or NetworkError, or raise anything else
FetchOutcomes ==
    { PyStr(<<"<","p",">","a","<","/","p",">">>), PyExc("NetworkTimeout"),
      PyExc("NetworkError"), PyExc("Exception") }

\* what can happen to the request of one _fetch_with_timeout call: a response
\* with content, a timeout, a refused connection, an HTTP 5xx or 4xx status, or
\* an error of no requests exception class
FetchCauses == {"ok", "timeout", "connection", "http_5xx", "http_4xx", "other"}

\* _fetch_with_timeout (lines 116-144): the content returned or the exception
\* raised for what happened to the request
fetch_with_timeout(cause) ==
    IF cause = "ok" THEN PyStr(<<"<","p",">","a","<","/","p",">">>)
    ELSE IF cause = "timeout" THEN PyExc("NetworkTimeout")
    ELSE IF cause \in {"connection", "http_5xx", "http_4xx"} THEN PyExc("NetworkError")
    ELSE PyExc("Exception")

\* only `except NetworkTimeout` handles the error
CaughtTimeoutOnly(outcome) == outcome.t = "exc" /\ outcome.v = "NetworkTimeout"

\* `except NetworkTimeout` or `except NetworkError` handles the error
Caught(outcome) == outcome.t = "exc" /\ outcome.v \in {"NetworkTimeout", "NetworkError"}

RECURSIVE Pow2(_)
\* self._backoff_factor ** n
Pow2(n) == IF n = 0 THEN 1 ELSE 2 * Pow2(n - 1)

\* ScrapingEngine(config) holds a validated default_max_retries; fetch_content starts
InitFetch ==
    /\ max_retries \in 0..MaxRetries
    /\ attempt = 0
    /\ last_error = PyNone
    /\ backoff_seconds = 0
    /\ fetch_pc = "loop"
    /\ fetch_log = <<>>
    /\ fetch_causes = <<>>
    /\ fetch_result = PyNone
    /\ value = <<>>
    /\ called = ""
    /\ returned = PyNone
    /\ ExtractIdle
    /\ RuleIdle
    /\ CallsIdle
    /\ ApiIdle
    /\ AdminIdle

\* lines 54-86: the while test and one pass through the loop body up to the
\* return, the raise or the sleep
FetchAttempt ==
    /\ fetch_pc = "loop"
    /\ IF attempt <= max_retries
       THEN \E cause \in FetchCauses : \E outcome \in {fetch_with_timeout(cause)} :
               /\ outcome \in FetchOutcomes
               /\ fetch_causes' = Append(fetch_causes, cause)
               /\ fetch_log' = Append(fetch_log, outcome)
               /\ IF outcome.t = "str"
                  THEN /\ fetch_pc' = "returned"
                       /\ fetch_result' = outcome
                       /\ UNCHANGED <<last_error, backoff_seconds>>
                  ELSE IF Caught(outcome)
                  THEN /\ last_error' = outcome
                       /\ IF attempt < max_retries
                          THEN /\ backoff_seconds' = Pow2(attempt)
                               /\ fetch_pc' = "sleep"
                               /\ UNCHANGED fetch_result
                          ELSE /\ fetch_pc' = "raised"
                               /\ fetch_result' = outcome
                               /\ UNCHANGED backoff_seconds
                  ELSE \* no handler: the exception leaves fetch_content
                       /\ fetch_pc' = "raised"
                       /\ fetch_result' = outcome
                       /\ UNCHANGED <<last_error, backoff_seconds>>
       ELSE \* lines 83-86
            /\ fetch_pc' = "raised"
            /\ fetch_result' = IF last_error.t = "exc" THEN last_error
                                ELSE PyExc("NetworkError")
            /\ UNCHANGED <<fetch_log, fetch_causes, last_error, backoff_seconds>>
    /\ UNCHANGED <<max_retries, attempt, inferVars, extractVars, ruleVars, callsVars, apiVars, adminVars>>

\* lines 67-68 and 78-79: time.sleep returns, attempt += 1
FetchSleep ==
    /\ fetch_pc = "sleep"
    /\ attempt' = attempt + 1
    /\ fetch_pc' = "loop"
    /\ UNCHANGED <<max_retries, last_error, backoff_seconds, fetch_log, fetch_causes,
                   fetch_result, inferVars, extractVars, ruleVars, callsVars, apiVars,
                   adminVars>>

NextFetch == FetchAttempt \/ FetchSleep

\* _fetch_with_timeout returns or raises within its timeout and time.sleep
\* returns, so a started call keeps taking steps
SpecFetch == InitFetch /\ [][NextFetch]_vars /\ WF_vars(NextFetch)

(***************************************************************************)
(* Properties of extract_fields                                            *)
(***************************************************************************)
\* two Python values are equal: same type, same content
SameValue(a, b) == a.t = b.t /\ a.v = b.v

\* how often x occurs in the list l
Count(l, x) == Cardinality({i \in DOMAIN l : l[i] = x})

\* every configured field, priority section first
AllFields == site_config.priority_fields \o site_config.extra_fields

\* the field names the site configures
ConfiguredNames == {AllFields[i].name : i \in DOMAIN AllFields}

\* the fields whose loop iteration has completed
Processed ==
    IF pc = "priority" THEN SubSeq(site_config.priority_fields, 1, idx - 1)
    ELSE IF pc = "extra"
         THEN site_config.priority_fields \o SubSeq(site_config.extra_fields, 1, idx - 1)
    ELSE IF pc = "returned" THEN AllFields
    ELSE <<>>

\* what the extractor gives for a field of this call's document
ExtractorOf(f) == extract_single_field(ParseNodes(html_content.v), f.rule, lxml)

\* the extractor raised
Raised(o) == o.t = "exc"

\* the extractor returned a string that is non-empty after trimming
NonBlankOutcome(o) == o.t = "str" /\ Strip(o.v) # <<>>

\* the status the specification gives a field for its extractor outcome
StatusOf(o) ==
    IF Raised(o) THEN "failed" ELSE IF NonBlankOutcome(o) THEN "extracted" ELSE "not_found"

\* the extractor outcome of every configured field, in processing order
Outcomes == [i \in DOMAIN AllFields |-> ExtractorOf(AllFields[i])]

Raises(f) == Raised(ExtractorOf(f))

NonBlank(f) == NonBlankOutcome(ExtractorOf(f))

StatusLists == {"extracted", "failed", "not_found"}

\* C1: after extract_fields returns, each configured field name occurs exactly
\* once in total across fields_status.extracted, failed and not_found.
C1_PartitionByName ==
    pc = "returned" =>
        \A n \in ConfiguredNames :
            Count(field_status.extracted, n) + Count(field_status.failed, n)
                + Count(field_status.not_found, n) = 1

\* C2: isolation law.  A field whose rule raises inside the extractor is recorded
\* as failed and never aborts the call, and every other field of the call, before
\* or after it, in the same or the other section, has the status and the value its
\* own rule gives.
C2_Isolation ==
    /\ pc = "raised" => SameValue(result, PyExc("ParsingError")) /\ field_status = EmptyStatus
    /\ pc = "returned" =>
          LET outs == Outcomes IN
          \A a \in DOMAIN AllFields :
              Raised(outs[a]) =>
                  /\ Count(field_status.failed, AllFields[a].name) >= 1
                  /\ \A b \in DOMAIN AllFields \ {a} :
                        LET B   == AllFields[b]
                            map == IF b <= Len(site_config.priority_fields)
                                   THEN priority_fields ELSE extra_metadata
                        IN  /\ Count(field_status[StatusOf(outs[b])], B.name) >= 1
                            /\ NonBlankOutcome(outs[b]) <=> B.name \in DOMAIN map
                            /\ NonBlankOutcome(outs[b]) =>
                                  SameValue(map[B.name], infer_and_convert(outs[b].v))

\* a call that returned although its first priority field raised, with the second
\* priority field extracted after it
C2_Witness ==
    /\ pc = "returned"
    /\ Len(site_config.priority_fields) = 2
    /\ Raises(site_config.priority_fields[1])
    /\ NonBlank(site_config.priority_fields[2])
    /\ site_config.priority_fields[2].name \in DOMAIN priority_fields
    /\ field_status.failed = <<site_config.priority_fields[1].name>>

C4_SuccessByPriorityOnly ==
    pc = "returned" => result.v.success = (DOMAIN result.v.priority_fields # {})

\* C5: per-field status is a function of the field's extractor outcome.  Of the
\* fields processed so far, those named n appear in extracted as often as their
\* extractor returned a non-blank string, in failed as often as it raised, and in
\* not_found as often as it returned None or a blank string.
C5_StatusByOutcome ==
    pc \in {"priority", "extra", "returned"} =>
        LET outs == Outcomes
            sts  == [i \in DOMAIN Processed |-> StatusOf(outs[i])] IN
        \A n \in FieldNames : \A st \in StatusLists :
            Count(field_status[st], n) =
                Cardinality({i \in DOMAIN Processed :
                                Processed[i].name = n /\ sts[i] = st})

\* a returned call with one field of each outcome class: a query that ran and
\* matched nothing is in not_found, a raising one in failed
C5_Witness ==
    /\ pc = "returned"
    /\ \E i, j \in DOMAIN AllFields :
          /\ AllFields[i].rule = PyStr(<<"/","/","b">>) /\ ~Raises(AllFields[i])
          /\ ~NonBlank(AllFields[i])
          /\ AllFields[i].name \in {field_status.not_found[k] : k \in DOMAIN field_status.not_found}
          /\ Raises(AllFields[j])
          /\ AllFields[j].name \in {field_status.failed[k] : k \in DOMAIN field_status.failed}

\* C6: a call ends either raising ParsingError, with no field processed and no
\* result object, or returning a result in which every configured field has a
\* status; it ends in no other way: until then it has produced nothing and stands
\* at the parse step or inside one of the two field loops.
C6_TwoEndings ==
    /\ pc = "raised" =>
          /\ SameValue(result, PyExc("ParsingError"))
          /\ BeautifulSoup(html_content).t = "exc"
          /\ field_status = EmptyStatus
          /\ priority_fields = <<>> /\ extra_metadata = <<>>
    /\ pc = "returned" =>
          /\ result.t = "result"
          /\ Len(result.v.fields_status.extracted) + Len(result.v.fields_status.failed)
                + Len(result.v.fields_status.not_found) = Len(AllFields)
          /\ \A n \in ConfiguredNames :
                \E st \in StatusLists : Count(result.v.fields_status[st], n) >= 1
    /\ pc \notin {"raised", "returned"} =>
          /\ SameValue(result, PyNone)
          /\ pc \in {"start", "priority", "extra"}
          /\ pc = "priority" => idx \in 1..(Len(site_config.priority_fields) + 1)
          /\ pc = "extra" => idx \in 1..(Len(site_config.extra_fields) + 1)

\* a call on html that cannot be parsed, ended by ParsingError with fields configured
C6_Witness ==
    /\ pc = "raised"
    /\ SameValue(result, PyExc("ParsingError"))
    /\ Len(AllFields) = 2

\* the name is configured for exactly one field of the call
UniqueName(n) == Cardinality({i \in DOMAIN AllFields : AllFields[i].name = n}) = 1

\* the rule is empty, whitespace only, or not a string
BlankRule(r) == r.t # "str" \/ Strip(r.v) = <<>>

\* C13: a field whose rule is empty, whitespace only or not a string ends in
\* not_found when extract_fields returns, never in failed or extracted.
C13_UnknownNotFound ==
    pc = "returned" =>
        \A i \in DOMAIN AllFields :
            (BlankRule(AllFields[i].rule) /\ UniqueName(AllFields[i].name)) =>
                /\ Count(field_status.not_found, AllFields[i].name) = 1
                /\ Count(field_status.failed, AllFields[i].name) = 0
                /\ Count(field_status.extracted, AllFields[i].name) = 0

\* the field's rule is a string that parse_rule classifies as xpath
IsXPathRule(r) == ~NoRule(r) /\ parse_rule(r)[1] = "xpath"

\* the status of a field when lxml is missing, told from what the extractor
\* gives with lxml present: an xpath rule is not found, any other rule is unaffected
DegradedStatus(f) ==
    IF IsXPathRule(f.rule) THEN "not_found"
    ELSE StatusOf(extract_single_field(ParseNodes(html_content.v), f.rule, TRUE))

\* C16: degraded tree-query capability.  Without lxml no field makes the call
\* raise, every field with an xpath rule is recorded in not_found, and every other
\* field has the status and the value it has with lxml present.
C16_DegradedXPath ==
    ~lxml =>
        /\ pc = "raised" => BeautifulSoup(html_content).t = "exc"
        /\ pc = "returned" =>
              /\ \A n \in FieldNames : \A st \in StatusLists :
                    Count(field_status[st], n) =
                        Cardinality({i \in DOMAIN AllFields :
                                        AllFields[i].name = n
                                        /\ DegradedStatus(AllFields[i]) = st})
              /\ \A i \in DOMAIN AllFields :
                    LET f    == AllFields[i]
                        with == extract_single_field(ParseNodes(html_content.v), f.rule, TRUE)
                        map  == IF i <= Len(site_config.priority_fields)
                                THEN priority_fields ELSE extra_metadata
                    IN  /\ (IsXPathRule(f.rule) /\ UniqueName(f.name)) =>
                              f.name \notin DOMAIN map
                        /\ (~IsXPathRule(f.rule) /\ NonBlankOutcome(with)) =>
                              /\ f.name \in DOMAIN map
                              /\ SameValue(map[f.name], infer_and_convert(with.v))

\* without lxml, "//b" is not found in a document where lxml would match it,
\* next to a selector field that is extracted
C16_Witness ==
    /\ pc = "returned"
    /\ ~lxml
    /\ site_config.priority_fields = <<[name |-> "name", rule |-> PyStr(<<"/","/","b">>)]>>
    /\ NonBlankOutcome(extract_single_field(ParseNodes(html_content.v),
                                            PyStr(<<"/","/","b">>), TRUE))
    /\ field_status.not_found = <<"name">>
    /\ field_status.extracted = <<"hours">>

(***************************************************************************)
(* Properties of interleaved extract_fields calls                          *)
(***************************************************************************)
\* one iteration of a section's loop for the field f with outcome o: the map and
\* the status lists after it
RunField(f, o, m, st) ==
    [map |-> IF o.status = "extracted" THEN DictSet(m, f.name, o.converted) ELSE m,
     status |-> StatusAppend(st, o.status, f.name)]

RECURSIVE RunSection(_, _, _, _)
\* a section's loop run to its end without interruption: the map and the status
\* lists after the fields, starting from map m and status lists st
RunSection(nodes, fields, m, st) ==
    IF fields = <<>> THEN [map |-> m, status |-> st]
    ELSE RunSection(nodes, Tail(fields),
                    RunField(Head(fields), FieldOutcome(nodes, Head(fields).rule, lxml),
                             m, st).map,
                    RunField(Head(fields), FieldOutcome(nodes, Head(fields).rule, lxml),
                             m, st).status)

\* the maps and status lists of the priority section p and the extra section e
AloneResult(p, e) ==
    [priority_fields |-> p.map, extra_metadata |-> e.map, fields_status |-> e.status]

\* the maps and status lists after the priority section p has run
AloneAfter(nodes, cfg, p) ==
    AloneResult(p, RunSection(nodes, cfg.extra_fields, <<>>, p.status))

\* what extract_fields returns for these arguments when it is the only call
Alone(html, cfg) ==
    AloneAfter(ParseNodes(html.v), cfg,
               RunSection(ParseNodes(html.v), cfg.priority_fields, <<>>, EmptyStatus))

\* the call returned what it returns when run alone
ReturnsAsAlone(k) ==
    /\ k.pc = "raised" => BeautifulSoup(k.html_content).t = "exc"
    /\ k.pc = "returned" =>
          /\ BeautifulSoup(k.html_content).t # "exc"
          /\ k.result.v.priority_fields = Alone(k.html_content, k.site_config).priority_fields
          /\ k.result.v.extra_metadata = Alone(k.html_content, k.site_config).extra_metadata
          /\ k.result.v.fields_status = Alone(k.html_content, k.site_config).fields_status

\* C17: no state is shared between calls.  Whatever the interleaving, a call
\* returns the maps and status lists it returns when run alone, which depend on
\* its html and rule set only; two calls with identical arguments return
\* identical maps and status lists.
C17_NoSharedState ==
    /\ \A c \in DOMAIN calls : ReturnsAsAlone(calls[c])
    /\ \A c, d \in DOMAIN calls :
          (/\ calls[c].pc = "returned" /\ calls[d].pc = "returned"
           /\ calls[c].html_content = calls[d].html_content
           /\ calls[c].site_config = calls[d].site_config)
              => /\ calls[c].result.v.priority_fields = calls[d].result.v.priority_fields
                 /\ calls[c].result.v.extra_metadata = calls[d].result.v.extra_metadata
                 /\ calls[c].result.v.fields_status = calls[d].result.v.fields_status

\* two calls with different documents and rule sets have both returned, each with
\* an extracted and a failed field of its own
C17_Witness ==
    /\ DOMAIN calls = CallIds
    /\ calls[1].pc = "returned" /\ calls[2].pc = "returned"
    /\ calls[1].html_content # calls[2].html_content
    /\ calls[1].site_config # calls[2].site_config
    /\ calls[1].result.v.fields_status.extracted = <<"name">>
    /\ calls[1].result.v.fields_status.failed = <<"hours">>
    /\ calls[2].result.v.fields_status.failed = <<"name">>
    /\ calls[2].result.v.fields_status.extracted = <<"hours">>

(***************************************************************************)
(* Properties of ScrapingEngine.fetch_content                              *)
(***************************************************************************)
\* fetch_content has returned or raised
FetchDone == fetch_pc \in {"returned", "raised"}

\* every attempt made so far failed with NetworkTimeout or NetworkError
AllAttemptsFailed ==
    \A i \in DOMAIN fetch_log :
        fetch_log[i].t = "exc" /\ fetch_log[i].v \in {"NetworkTimeout", "NetworkError"}

\* the retry bound in one state: at most max_retries + 1 attempts; an attempt that
\* succeeds is the last one and its content is returned; a call ended after
\* nothing but NetworkTimeout and NetworkError made exactly max_retries + 1
\* attempts and raised the error of the last one
RetryBound ==
    /\ Len(fetch_log) <= max_retries + 1
    /\ \A i \in DOMAIN fetch_log :
          fetch_log[i].t = "str" =>
              /\ i = Len(fetch_log)
              /\ fetch_pc = "returned"
              /\ SameValue(fetch_result, fetch_log[i])
    /\ fetch_pc = "returned" =>
          fetch_log # <<>> /\ fetch_log[Len(fetch_log)].t = "str"
    /\ (FetchDone /\ AllAttemptsFailed) =>
          /\ Len(fetch_log) = max_retries + 1
          /\ fetch_pc = "raised"
          /\ SameValue(fetch_result, fetch_log[Len(fetch_log)])

C12_BlankIsUnknown ==
    called = "parse_rule" =>
        /\ returned.t = "tuple"
        /\ BlankRule(arg_rule) => returned.v[1] = "unknown"

\* C14: classification order.  A rule whose trimmed text starts with "//" is
\* xpath; any other rule with non-empty trimmed text that neither starts with "^"
\* nor is enclosed in "/" with length at least 2 is css; and every result that is
\* not unknown carries the trimmed rule as its pattern.
C14_ClassificationOrder ==
    (called = "parse_rule" /\ arg_rule.t = "str") =>
        LET r == Strip(arg_rule.v) IN
        /\ StartsWith(r, <<"/","/">>) => returned.v[1] = "xpath"
        /\ (/\ r # <<>>
            /\ ~StartsWith(r, <<"/","/">>)
            /\ ~StartsWith(r, <<"^">>)
            /\ ~(StartsWith(r, <<"/">>) /\ EndsWith(r, <<"/">>) /\ Len(r) >= 2))
              => returned.v[1] = "css"
        /\ returned.v[1] # "unknown" => returned.v[2] = r

\* the trimmed, non-empty texts of the elements the selector matches, in
\* document order
Survivors(nodes, selector) ==
    SelectSeq([i \in 1..Len(TextsOf(nodes, selector)) |-> Strip(TextsOf(nodes, selector)[i])],
              LAMBDA t : t # <<>>)

\* the returned text is the texts joined by ", "
IsJoinOf(text, texts) ==
    /\ Len(text) = Len(JoinCommaSpace(texts))
    /\ \A k \in 1..Len(texts) :
          LET start == Len(JoinCommaSpace(SubSeq(texts, 1, k - 1)))
                          + (IF k > 1 THEN 2 ELSE 0)
          IN  /\ SubSeq(text, start + 1, start + Len(texts[k])) = texts[k]
              /\ k > 1 => SubSeq(text, start - 1, start) = <<",", " ">>

\* C15: many-match aggregation.  For a selector the engine accepts, the extractor
\* returns None when no matched node has text left after trimming, that text when
\* one has, and the trimmed non-empty texts in document order joined with ", "
\* when several have; it never raises.
C15_ManyMatchJoin ==
    (/\ called = "_extract_single_field"
     /\ ~NoRule(arg_rule)
     /\ parse_rule(arg_rule)[1] = "css"
     /\ IsName(parse_rule(arg_rule)[2]))
        => LET texts == Survivors(arg_soup, parse_rule(arg_rule)[2]) IN
           IF texts = <<>> THEN SameValue(returned, PyNone)
           ELSE IF Len(texts) = 1 THEN SameValue(returned, PyStr(texts[1]))
           ELSE returned.t = "str" /\ IsJoinOf(returned.v, texts)

\* "p" on a document with four p elements, one blank and one padded: three texts
\* joined
C15_Witness ==
    /\ called = "_extract_single_field"
    /\ arg_rule = PyStr(<<"p">>)
    /\ Len(TextsOf(arg_soup, <<"p">>)) = 4
    /\ SameValue(returned, PyStr(<<"a", ",", " ", "b", ",", " ", "c">>))

(***************************************************************************)
(* Properties of TypeConverter.infer_and_convert                           *)
(***************************************************************************)
\* the input is empty or all whitespace
Blank(s) == Strip(s) = <<>>

\* the non-empty trimmed pieces of the trimmed input cut at sep
Pieces(s, sep) == NonEmpty(StrippedParts(Strip(s), sep))

\* sep occurs in the input
Occurs(s, sep) == Contains(Strip(s), sep)

\* the first of ",", ";", "|" that occurs in the input, "" if none does
FirstOccurring(s) ==
    IF Occurs(s, ",") THEN "," ELSE IF Occurs(s, ";") THEN ";"
    ELSE IF Occurs(s, "|") THEN "|" ELSE ""

\* the first of ",", ";", "|" that occurs with at least one non-empty piece
Deciding(s) ==
    IF Occurs(s, ",") /\ Pieces(s, ",") # <<>> THEN ","
    ELSE IF Occurs(s, ";") /\ Pieces(s, ";") # <<>> THEN ";"
    ELSE IF Occurs(s, "|") /\ Pieces(s, "|") # <<>> THEN "|"
    ELSE ""

\* C7: infer_and_convert is total.  It never raises and returns a boolean, an
\* integer, a float, a list of at least 2 non-empty trimmed strings, or a string;
\* a string result is the trimmed input, and a blank input is returned unchanged.
C7_InferTotal ==
    called = "infer_and_convert" =>
        /\ returned.t \in {"bool", "int", "float", "list", "str"}
        /\ returned.t = "list" =>
              /\ Len(returned.v) >= 2
              /\ \A i \in DOMAIN returned.v :
                    returned.v[i] # <<>> /\ Strip(returned.v[i]) = returned.v[i]
        /\ (returned.t = "str" /\ ~Blank(value)) => returned.v = Strip(value)
        /\ Blank(value) => SameValue(returned, PyStr(value))

\* an input with surrounding whitespace that no conversion applies to, returned trimmed
C7_Witness ==
    /\ called = "infer_and_convert"
    /\ value = <<" ", "a", "n", " ">>
    /\ SameValue(returned, PyStr(<<"a", "n">>))

\* C8: when the first separator that occurs in the input splits it into exactly
\* one non-empty trimmed piece, infer_and_convert returns that piece as a string.
C8_SinglePiece ==
    (/\ called = "infer_and_convert"
     /\ FirstOccurring(value) # ""
     /\ Len(Pieces(value, FirstOccurring(value))) = 1)
        => SameValue(returned, PyStr(Pieces(value, FirstOccurring(value))[1]))

\* C9: boolean precedence.  An input that trimmed and lower-cased is yes, true or
\* 1 yields True, one that is no, false or 0 yields False (never an integer), and
\* every other input yields no boolean.
C9_BooleanFirst ==
    called = "infer_and_convert" =>
        LET w == Lower(Strip(value)) IN
        IF w \in {<<"y","e","s">>, <<"t","r","u","e">>, <<"1">>}
        THEN returned.t = "bool" /\ returned.v = TRUE
        ELSE IF w \in {<<"n","o">>, <<"f","a","l","s","e">>, <<"0">>}
             THEN returned.t = "bool" /\ returned.v = FALSE
             ELSE returned.t # "bool"

\* the input "1" with surrounding whitespace, returned as True
C9_Witness ==
    /\ called = "infer_and_convert"
    /\ value = <<" ", "1", " ">>
    /\ returned.t = "bool"
    /\ returned.v = TRUE

\* C10: list inference.  The first of ",", ";", "|" that occurs with at least one
\* non-empty piece decides: the result is a list exactly when that separator
\* leaves more than one piece, and then it is those trimmed pieces in order; a
\* later separator never determines the result.
C10_ListInference ==
    called \in {"infer_and_convert", "convert_to_list"} =>
        LET sep == Deciding(value) IN
        IF ~Blank(value) /\ sep # "" /\ Len(Pieces(value, sep)) > 1
        THEN returned.t = "list" /\ returned.v = Pieces(value, sep)
        ELSE returned.t # "list"

\* an input holding "," and ";" that is split on the comma alone
C10_Witness ==
    /\ called = "infer_and_convert"
    /\ value = <<"a", ",", "b", ";", "c">>
    /\ returned.t = "list"
    /\ returned.v = << <<"a">>, <<"b", ";", "c">> >>

\* the word is one convert_to_bool recognises
IsBoolWord(s) ==
    Lower(Strip(s)) \in {<<"y","e","s">>, <<"t","r","u","e">>, <<"1">>,
                         <<"n","o">>, <<"f","a","l","s","e">>, <<"0">>}

\* what list inference, then string inference, give for the input
ListOrString(s) ==
    IF convert_to_list(s).t = "list" THEN convert_to_list(s) ELSE convert_to_string(s)

Message(text) == PyStr(<<text>>)

\* a TOML table holding field rules
PyTable(fields) == [t |-> "table", v |-> fields]

\* dict.get(key, default) on a value that is None when the key is absent
GetOr(val, default) == IF val.t = "none" THEN default ELSE val

\* `not x` for a str or None
Falsy(x) == x.t = "none" \/ (x.t = "str" /\ x.v = <<>>)

\* SiteConfig.__post_init__ on the values _parse_config passes (id, url_pattern
\* and site_type are non-empty strings there): the exception raised, or None
SiteConfigPostInit(id, url_pattern, site_type, timeout_seconds, retries) ==
    IF Strip(id.v) = <<>> \/ Strip(url_pattern.v) = <<>> \/ Strip(site_type.v) = <<>>
    THEN PyExc("ValueError")
    ELSE IF timeout_seconds.v < 1 THEN PyExc("ValueError")
    ELSE IF retries.v < 0 THEN PyExc("ValueError")
    ELSE PyNone

\* ScraperConfig.__post_init__: the exception raised, or None
ScraperConfigPostInit(default_timeout, default_max_retries) ==
    IF default_timeout.v < 1 THEN PyExc("ValueError")
    ELSE IF default_max_retries.v < 0 THEN PyExc("ValueError")
    ELSE PyNone

\* the section as the model's extract_fields reads it
SectionOf(table) == table.v

\* lines 92-129 for one site dict: the SiteConfig built, or the exception raised
ParseSite(site_dict, default_timeout, default_max_retries) ==
    IF Falsy(site_dict.id) \/ Falsy(site_dict.url_pattern) \/ Falsy(site_dict.site_type)
    THEN PyExc("ConfigurationError")
    \* fields_section.get on a value that is no table
    ELSE IF site_dict.fields.t \notin {"none", "fields"} THEN PyExc("AttributeError")
    ELSE LET priority == IF site_dict.fields.t = "none" THEN PyTable(<<>>)
                         ELSE GetOr(site_dict.fields.v.priority, PyTable(<<>>))
             extra    == IF site_dict.fields.t = "none" THEN PyTable(<<>>)
                         ELSE GetOr(site_dict.fields.v.extra, PyTable(<<>>))
             post     == SiteConfigPostInit(site_dict.id, site_dict.url_pattern,
                                            site_dict.site_type,
                                            GetOr(site_dict.timeout_seconds, default_timeout),
                                            GetOr(site_dict.max_retries, default_max_retries))
         IN  IF priority.t # "table" \/ extra.t # "table" THEN PyExc("ConfigurationError")
             ELSE IF post.t = "exc" THEN post
             ELSE [t |-> "site",
                   v |-> [id |-> site_dict.id.v,
                          url_pattern |-> site_dict.url_pattern.v,
                          site_type |-> site_dict.site_type.v,
                          priority_fields |-> SectionOf(priority),
                          extra_fields |-> SectionOf(extra),
                          timeout_seconds |-> GetOr(site_dict.timeout_seconds, default_timeout).v,
                          max_retries |-> GetOr(site_dict.max_retries, default_max_retries).v]]

RECURSIVE ParseSites(_, _, _)
\* the for loop of _parse_config: the SiteConfig list, or the first exception
ParseSites(sites_list, default_timeout, default_max_retries) ==
    IF sites_list = <<>> THEN [t |-> "sites", v |-> <<>>]
    ELSE LET first == ParseSite(Head(sites_list), default_timeout, default_max_retries) IN
         IF first.t = "exc" THEN first
         ELSE LET rest == ParseSites(Tail(sites_list), default_timeout, default_max_retries) IN
              IF rest.t = "exc" THEN rest
              ELSE [t |-> "sites", v |-> <<first.v>> \o rest.v]

\* lines 131-136: ScraperConfig(...) on the parsed sites
BuildScraperConfig(sites, default_timeout, default_max_retries) ==
    IF sites.t = "exc" THEN sites
    ELSE IF ScraperConfigPostInit(default_timeout, default_max_retries).t = "exc"
    THEN ScraperConfigPostInit(default_timeout, default_max_retries)
    ELSE [t |-> "config",
          v |-> [sites |-> sites.v,
                 default_timeout |-> default_timeout.v,
                 default_max_retries |-> default_max_retries.v]]

\* _parse_config: the ScraperConfig, or the exception raised
parse_config(config_dict) ==
    BuildScraperConfig(
        ParseSites(config_dict.sites,
                   GetOr(config_dict.scraper.timeout_seconds, PyInt(30)),
                   GetOr(config_dict.scraper.max_retries, PyInt(3))),
        GetOr(config_dict.scraper.timeout_seconds, PyInt(30)),
        GetOr(config_dict.scraper.max_retries, PyInt(3)))

\* load_config: the ScraperConfig, or the exception raised
load_config(file) ==
    IF file.t = "missing" THEN PyExc("ConfigurationError")
    ELSE IF file.t = "invalid_toml" THEN PyExc("ConfigurationError")
    ELSE parse_config(file.v)

(***************************************************************************)
(* URLValidator (validators.py) and the site lookup (config.py)            *)
(***************************************************************************)
\* `sub in s`
HasSubstring(s, sub) ==
    \E i \in 1..(Len(s) - Len(sub) + 1) : SubSeq(s, i, i + Len(sub) - 1) = sub

\* s.find(sub) + 1 for a sub that occurs in s
FindSubstring(s, sub) ==
    CHOOSE i \in 1..(Len(s) - Len(sub) + 1) :
        /\ SubSeq(s, i, i + Len(sub) - 1) = sub
        /\ \A j \in 1..(i - 1) : SubSeq(s, j, j + Len(sub) - 1) # sub

\* the netloc and the path of the text after the scheme's colon
SplitNetloc(rest) ==
    IF StartsWith(rest, <<"/","/">>)
    THEN LET after == From(rest, 3)
             slash == IndexOf(after, "/")
         IN  [netloc |-> SubSeq(after, 1, slash - 1), path |-> From(after, slash)]
    ELSE [netloc |-> <<>>, path |-> rest]

\* urllib.parse.urlparse for urls without query and fragment: scheme, netloc and
\* path, or ValueError for a netloc with an unmatched bracket
urlparse(url) ==
    LET colon  == IndexOf(url, ":")
        scheme == IF colon <= Len(url) /\ IsName(SubSeq(url, 1, colon - 1))
                  THEN Lower(SubSeq(url, 1, colon - 1)) ELSE <<>>
        parts  == SplitNetloc(IF scheme # <<>> THEN From(url, colon + 1) ELSE url)
    IN  IF Contains(parts.netloc, "[") # Contains(parts.netloc, "]")
        THEN PyExc("ValueError")
        ELSE [t |-> "url", v |-> [scheme |-> scheme, netloc |-> parts.netloc,
                                  path |-> parts.path]]

RECURSIVE RStripChar(_, _)
\* str.rstrip(c)
RStripChar(s, c) ==
    IF s # <<>> /\ s[Len(s)] = c THEN RStripChar(SubSeq(s, 1, Len(s) - 1), c) ELSE s

\* URLValidator.validate on a str: the exception raised, or None
validate(url) ==
    IF url = <<>> THEN PyExc("URLValidationError")
    ELSE IF Strip(url) = <<>> THEN PyExc("URLValidationError")
    ELSE IF ~HasSubstring(Strip(url), <<":","/","/">>) THEN PyExc("URLValidationError")
    ELSE LET parsed == urlparse(Strip(url)) IN
         IF parsed.t = "exc" THEN parsed
         ELSE IF parsed.v.scheme \notin {<<"h","t","t","p">>, <<"h","t","t","p","s">>}
         THEN PyExc("URLValidationError")
         ELSE IF parsed.v.netloc = <<>> THEN PyExc("URLValidationError")
         ELSE PyNone

\* the url with https:// put before it when it has no scheme
WithScheme(url) ==
    IF HasSubstring(url, <<":","/","/">>) THEN url
    ELSE <<"h","t","t","p","s",":","/","/">> \o url

\* lines 77-88 of normalize on the stripped url with its scheme
NormalizeValidated(url) ==
    IF validate(url).t = "exc" THEN validate(url)
    ELSE PyStr(urlparse(url).v.scheme \o <<":","/","/">> \o urlparse(url).v.netloc
               \o RStripChar(urlparse(url).v.path, "/"))

\* URLValidator.normalize: the normalized url, or the exception raised
normalize(url) ==
    IF url.t # "str" \/ url.v = <<>> THEN PyExc("URLValidationError")
    ELSE NormalizeValidated(WithScheme(Strip(url.v)))

RECURSIVE lookup_site_config(_, _)
\* ConfigManager.lookup_site_config: the first site whose url_pattern occurs in
\* the url, or ConfigurationError
lookup_site_config(sites, url) ==
    IF sites = <<>> THEN PyExc("ConfigurationError")
    ELSE IF HasSubstring(url, Head(sites).url_pattern)
         THEN [t |-> "site", v |-> Head(sites)]
         ELSE lookup_site_config(Tail(sites), url)

(***************************************************************************)
(* scrape_facility (api.py)                                                *)
(***************************************************************************)
\* the url arguments: with and without scheme, with a trailing slash, of an
\* unknown site, with an unsupported scheme, with an unmatched bracket, empty, None
UrlSamples ==
    { PyStr(<<"h","t","t","p","s",":","/","/","a",".","c","o","m","/">>),
      PyStr(<<"a",".","c","o","m">>),
      PyStr(<<"h","t","t","p",":","/","/","b",".","c","o","m">>),
      PyStr(<<"f","t","p",":","/","/","a",".","c","o","m">>),
      PyStr(<<"h","t","t","p",":","/","/","[">>),
      PyStr(<<>>),
      PyNone }

\* the [scraper] tables: each setting absent, out of range, or in range
ScraperSections ==
    [timeout_seconds : {PyNone, PyInt(0), PyInt(30)},
     max_retries : {PyNone, PyInt(-1), PyInt(1)}]

\* the priority table of the sample site
PriorityTable == PyTable(<<[name |-> "name", rule |-> PyStr(<<"p">>)]>>)

\* the `fields` values of a site: absent, tables, a section that is no table,
\* and a `fields` value that is no table itself
FieldsValues ==
    { PyNone,
      [t |-> "fields", v |-> [priority |-> PriorityTable, extra |-> PyNone]],
      [t |-> "fields", v |-> [priority |-> PyStr(<<"p">>), extra |-> PyNone]],
      [t |-> "fields", v |-> [priority |-> PriorityTable, extra |-> PyStr(<<"p">>)]],
      PyStr(<<"p">>) }

\* the [[sites]] entries
SiteDicts ==
    [id : {PyNone, PyStr(<<"a">>)},
     url_pattern : {PyNone, PyStr(<<"a",".","c","o","m">>)},
     site_type : {PyStr(<<>>), PyStr(<<"f","a","b">>)},
     fields : FieldsValues,
     timeout_seconds : {PyNone, PyInt(0)},
     max_retries : {PyNone, PyInt(-1)}]

\* the configuration files: missing, not TOML, or a dict with at most one site
ConfigFiles ==
    {[t |-> "missing", v |-> <<>>], [t |-> "invalid_toml", v |-> <<>>]}
    \cup {[t |-> "dict", v |-> [scraper |-> sc, sites |-> ss]] :
             sc \in ScraperSections, ss \in {<<>>} \cup {<<d>> : d \in SiteDicts}}

\* what ScrapingEngine.fetch_content can do: return a document (one match,
\* several matches, a match whose text holds a comma), a document the parser
\* rejects or an empty one, or raise
ApiFetchOutcomes ==
    { PyStr(<<"<","p",">","a","<","/","p",">">>), PyStr(<<"<","!","[","x","]",">">>),
      PyStr(<<"<","p",">","a","<","/","p",">","<","p",">","b","<","/","p",">">>),
      PyStr(<<"<","p",">","a",",","b","<","/","p",">","<","p",">","c","<","/","p",">">>),
      PyStr(<<>>), PyExc("NetworkTimeout"), PyExc("NetworkError"), PyExc("Exception") }

\* the output_path arguments: none, and a path
OutputPaths == {PyNone, PyStr(<<"o">>)}

\* lines 64-72: scrape_facility is called and initialises its result
InitApi ==
    /\ value = <<>>
    /\ called = ""
    /\ returned = PyNone
    /\ ExtractIdle
    /\ RuleIdle
    /\ CallsIdle
    /\ FetchIdle
    /\ AdminIdle
    /\ api_args \in [url : UrlSamples, config_file : ConfigFiles, output_path : OutputPaths]
    /\ api_pc = "load_config"
    /\ api_started = <<>>
    /\ api_locals = NoLocals
    /\ api_failed = ""
    /\ api_exc = PyNone
    /\ api_written = FALSE
    /\ api_result = InitialResult

\* a phase ends with exception e: its except clause stores str(e) in
\* result["error"] and returns the result, or no clause matches and e leaves
\* scrape_facility
ApiEnd(phase, e, handled) ==
    /\ api_failed' = phase
    /\ api_exc' = e
    /\ IF handled
       THEN /\ api_result' = [api_result EXCEPT !.error = Message(e.v)]
            /\ api_pc' = "returned"
       ELSE /\ api_pc' = "raised"
            /\ UNCHANGED api_result

\* what a step of scrape_facility leaves alone
ApiFrame == UNCHANGED <<api_args, inferVars, extractVars, ruleVars, callsVars, fetchVars, adminVars>>

\* lines 74-83, phase 1: load the configuration; except ConfigurationError
ApiLoadConfig ==
    /\ api_pc = "load_config"
    /\ api_started' = Append(api_started, "load_config")
    /\ LET r == load_config(api_args.config_file) IN
       IF r.t = "exc"
       THEN /\ ApiEnd("load_config", r, r.v = "ConfigurationError")
            /\ UNCHANGED api_locals
       ELSE /\ api_locals' = [api_locals EXCEPT !.scraper_config = r]
            /\ api_pc' = "validate_url"
            /\ UNCHANGED <<api_failed, api_exc, api_result>>
    /\ UNCHANGED api_written
    /\ ApiFrame

\* lines 85-95, phase 2: validate and normalize the url; except URLValidationError
ApiValidateUrl ==
    /\ api_pc = "validate_url"
    /\ api_started' = Append(api_started, "validate_url")
    /\ LET r == normalize(api_args.url) IN
       IF r.t = "exc"
       THEN /\ ApiEnd("validate_url", r, r.v = "URLValidationError")
            /\ UNCHANGED api_locals
       ELSE /\ api_locals' = [api_locals EXCEPT !.normalized_url = r]
            /\ api_pc' = "lookup_site"
            /\ UNCHANGED <<api_failed, api_exc, api_result>>
    /\ UNCHANGED api_written
    /\ ApiFrame

\* lines 97-106, phase 3: look up the site configuration; except ConfigurationError
ApiLookupSite ==
    /\ api_pc = "lookup_site"
    /\ api_started' = Append(api_started, "lookup_site")
    /\ LET r == lookup_site_config(api_locals.scraper_config.v.sites,
                                   api_locals.normalized_url.v) IN
       IF r.t = "exc"
       THEN /\ ApiEnd("lookup_site", r, r.v = "ConfigurationError")
            /\ UNCHANGED api_locals
       ELSE /\ api_locals' = [api_locals EXCEPT !.site_config = r]
            /\ api_pc' = "fetch"
            /\ UNCHANGED <<api_failed, api_exc, api_result>>
    /\ UNCHANGED api_written
    /\ ApiFrame

\* lines 108-122, phase 4: fetch the page; except NetworkTimeout, NetworkError
ApiFetch ==
    /\ api_pc = "fetch"
    /\ api_started' = Append(api_started, "fetch")
    /\ \E r \in ApiFetchOutcomes :
          IF r.t = "exc"
          THEN /\ ApiEnd("fetch", r, r.v \in {"NetworkTimeout", "NetworkError"})
               /\ UNCHANGED api_locals
          ELSE /\ api_locals' = [api_locals EXCEPT !.html_content = r]
               /\ api_pc' = "extract"
               /\ UNCHANGED <<api_failed, api_exc, api_result>>
    /\ UNCHANGED api_written
    /\ ApiFrame

\* lines 121-135: the ExtractionResult built from the maps and status lists a
ExtractionResultOf(a, cfg) ==
    [t |-> "result",
     v |-> [success |-> Success(a.fields_status),
            priority_fields |-> a.priority_fields,
            extra_metadata |-> a.extra_metadata,
            fields_status |-> a.fields_status,
            site_type |-> cfg.site_type]]

\* ExtractionEngine().extract_fields(html, cfg): the ExtractionResult, or ParsingError
ExtractFields(html, cfg) ==
    IF BeautifulSoup(html).t = "exc" THEN PyExc("ParsingError")
    ELSE ExtractionResultOf(Alone(html, cfg), cfg)

\* lines 124-141, phase 5: extract the fields; except ParsingError, Exception
ApiExtract ==
    /\ api_pc = "extract"
    /\ api_started' = Append(api_started, "extract")
    /\ \E r \in {ExtractFields(api_locals.html_content, api_locals.site_config.v)} :
          IF r.t = "exc"
          THEN /\ ApiEnd("extract", r, TRUE)
               /\ UNCHANGED api_locals
          ELSE /\ api_locals' = [api_locals EXCEPT !.extraction_result = r]
               /\ api_pc' = "format"
               /\ UNCHANGED <<api_failed, api_exc, api_result>>
    /\ UNCHANGED api_written
    /\ ApiFrame

\* TOMLOutputFormatter.format_result: the writer's output, or the manual format
\* when the writer is absent or fails
format_result(extraction_result) == [t |-> "toml", v |-> extraction_result.v]

\* lines 143-152, phase 6: format the output; except Exception
ApiFormat ==
    /\ api_pc = "format"
    /\ api_started' = Append(api_started, "format")
    /\ LET r == format_result(api_locals.extraction_result) IN
       IF r.t = "exc"
       THEN /\ ApiEnd("format", r, TRUE)
            /\ UNCHANGED api_locals
       ELSE /\ api_locals' = [api_locals EXCEPT !.toml_output = r]
            /\ api_pc' = IF Falsy(api_args.output_path) THEN "respond" ELSE "write_file"
            /\ UNCHANGED <<api_failed, api_exc, api_result>>
    /\ UNCHANGED api_written
    /\ ApiFrame

\* lines 154-165, phase 7: write and verify the file; except IOError
ApiWriteFile ==
    /\ api_pc = "write_file"
    /\ api_started' = Append(api_started, "write_file")
    /\ \E ok \in BOOLEAN :
          IF ok
          THEN /\ api_written' = TRUE
               /\ api_pc' = "respond"
               /\ UNCHANGED <<api_failed, api_exc, api_result>>
          ELSE /\ ApiEnd("write_file", PyExc("IOError"), TRUE)
               /\ UNCHANGED api_written
    /\ UNCHANGED api_locals
    /\ ApiFrame

\* lines 167-192, phase 8: fill the result from the ExtractionResult and return it
ApiRespond ==
    /\ api_pc = "respond"
    /\ LET er == api_locals.extraction_result.v IN
       api_result' =
           [api_result EXCEPT
               !.success = er.success,
               !.data = [priority_fields |-> er.priority_fields,
                         extra_metadata |-> er.extra_metadata],
               !.metadata = [extraction_metadata |->
                                 [success |-> er.success, site_type |-> er.site_type],
                             fields_status |-> er.fields_status]]
    /\ api_pc' = "returned"
    /\ UNCHANGED <<api_started, api_locals, api_failed, api_exc, api_written>>
    /\ ApiFrame

NextApi ==
    \/ ApiLoadConfig
    \/ ApiValidateUrl
    \/ ApiLookupSite
    \/ ApiFetch
    \/ ApiExtract
    \/ ApiFormat
    \/ ApiWriteFile
    \/ ApiRespond

SpecApi == InitApi /\ [][NextApi]_vars

(***************************************************************************)
(* Properties of scrape_facility and load_config                           *)
(***************************************************************************)
\* the fixed order of the phases
PhaseOrder ==
    <<"load_config", "validate_url", "lookup_site", "fetch", "extract", "format",
      "write_file">>

\* s is a prefix of r
IsPrefix(s, r) == Len(s) <= Len(r) /\ SubSeq(r, 1, Len(s)) = s

\* the phases of a call in which every phase completed: all seven, or the first
\* six when no output path was given
AllPhases(output_path) ==
    IF Falsy(output_path) THEN SubSeq(PhaseOrder, 1, 6) ELSE PhaseOrder

\* scrape_facility has returned the dict of a failed call: error is a message,
\* success is False, the data maps and the metadata are empty
ReturnedError ==
    /\ api_pc = "returned"
    /\ api_result.error.t = "str"
    /\ api_result.error.v # <<>>
    /\ api_result.success = FALSE
    /\ api_result.data.priority_fields = <<>>
    /\ api_result.data.extra_metadata = <<>>
    /\ DOMAIN api_result.metadata = {}

\* the phases run in the fixed order, and a phase that failed is the last started
StopsAtFailure ==
    /\ IsPrefix(api_started, PhaseOrder)
    /\ api_failed # "" => api_started[Len(api_started)] = api_failed
    /\ (\E i \in DOMAIN api_started : api_started[i] = "fetch") =>
          /\ normalize(api_args.url).t # "exc"
          /\ lookup_site_config(load_config(api_args.config_file).v.sites,
                                normalize(api_args.url).v).t # "exc"
    /\ api_written => api_failed = ""

\* C19: scrape_facility runs its phases in the fixed order and stops at the first
\* phase that fails: no later phase is started, nothing is fetched for an invalid
\* url or an unknown site, no file is written after a failure, and the call then
\* returns the dict with error set to a message, success False, empty data maps
\* and empty metadata.  A returned error is None only when every phase completed.
C19_PhasesStopAtFirstFailure ==
    /\ StopsAtFailure
    /\ api_failed # "" => ReturnedError
    /\ (api_pc = "returned" /\ api_result.error.t = "none") =>
          /\ api_failed = ""
          /\ api_started = AllPhases(api_args.output_path)

\* the configuration has a defect of the kinds load_config must report: a site
\* lacking id, url_pattern or site_type, a field section that is no table, a
\* timeout below 1 or negative retries
InvalidSite(d) ==
    \/ Falsy(d.id) \/ Falsy(d.url_pattern) \/ Falsy(d.site_type)
    \/ d.fields.t \notin {"none", "fields"}
    \/ (d.fields.t = "fields" /\ d.fields.v.priority.t \notin {"none", "table"})
    \/ (d.fields.t = "fields" /\ d.fields.v.extra.t \notin {"none", "table"})
    \/ (d.timeout_seconds.t = "int" /\ d.timeout_seconds.v < 1)
    \/ (d.max_retries.t = "int" /\ d.max_retries.v < 0)

\* the configuration file is invalid: missing, not TOML, out-of-range defaults,
\* or an invalid site
InvalidConfig(file) ==
    \/ file.t \in {"missing", "invalid_toml"}
    \/ /\ file.t = "dict"
       /\ \/ (file.v.scraper.timeout_seconds.t = "int" /\ file.v.scraper.timeout_seconds.v < 1)
          \/ (file.v.scraper.max_retries.t = "int" /\ file.v.scraper.max_retries.v < 0)
          \/ \E i \in DOMAIN file.v.sites : InvalidSite(file.v.sites[i])

\* C20: load_config reports every invalid configuration as ConfigurationError and
\* lets no other exception type escape, so scrape_facility called with an invalid
\* configuration returns a dict with error populated instead of raising.
C20_InvalidConfigReported ==
    (api_started # <<>> /\ InvalidConfig(api_args.config_file)) =>
        /\ SameValue(load_config(api_args.config_file), PyExc("ConfigurationError"))
        /\ api_pc = "returned"
        /\ api_result.error.t = "str"

(***************************************************************************)
(* Properties of the pattern-match rules                                   *)
(***************************************************************************)
\* the trimmed rule r is enclosed in "/" and has length at least 2
Enclosed(r) == Len(r) >= 2 /\ StartsWith(r, <<"/">>) /\ EndsWith(r, <<"/">>)

\* C23: a rule not starting with "//" is classified regex exactly when its
\* trimmed text starts with "^", or starts and ends with "/" and has length at
\* least 2; the one-character rule "/" is a css rule.
C23_PatternMatchCondition ==
    (called = "parse_rule" /\ arg_rule.t = "str"
        /\ ~StartsWith(Strip(arg_rule.v), <<"/","/">>)) =>
        (returned.v[1] = "regex"
            <=> (StartsWith(Strip(arg_rule.v), <<"^">>) \/ Enclosed(Strip(arg_rule.v))))

\* the pattern of the trimmed pattern-match rule r: the text between the one
\* enclosing pair of "/", or r itself
PatternOf(r) == IF Enclosed(r) THEN SubSeq(r, 2, Len(r) - 1) ELSE r

\* the direct call was made with a pattern-match rule whose pattern compiles
PatternCall ==
    /\ called = "_extract_single_field"
    /\ arg_rule.t = "str"
    /\ ~StartsWith(Strip(arg_rule.v), <<"/","/">>)
    /\ StartsWith(Strip(arg_rule.v), <<"^">>) \/ Enclosed(Strip(arg_rule.v))
    /\ ParenDepthOk(PatternOf(Strip(arg_rule.v)), 0)

\* C24: for a rule /P/ the pattern searched is exactly P, for a rule starting
\* with "^" it is the trimmed rule; the search ignores case and runs over the
\* serialized document, the result is the whole matched span, and no match
\* gives None.
C24_PatternSearched ==
    PatternCall =>
        SameValue(returned, Search(PatternOf(Strip(arg_rule.v)), Serialize(arg_soup)))

(***************************************************************************)
(* Properties of the result maps of extract_fields                         *)
(***************************************************************************)
\* the names of a section's fields
NamesOf(section) == {section[i].name : i \in DOMAIN section}

\* the names of the section that the status list holds
RecordedIn(section, list) == {n \in NamesOf(section) : Count(list, n) >= 1}

\* the value is a stored value: no empty string and not None
Stored(val) == val.t # "none" /\ ~(val.t = "str" /\ val.v = <<>>)

\* every entry of the map is the inferred value of the non-blank match of the
\* section's field of that name; outs are the extractor outcomes of the section
ValuesInferred(map, section, outs) ==
    \A i \in DOMAIN section :
        section[i].name \in DOMAIN map =>
            /\ NonBlankOutcome(outs[i])
            /\ SameValue(map[section[i].name], infer_and_convert(outs[i].v))
            /\ Stored(map[section[i].name])

\* the map of a section agrees with the status lists fs
MapAgrees(map, section, fs, outs) ==
    /\ DOMAIN map = RecordedIn(section, fs.extracted)
    /\ \A n \in RecordedIn(section, fs.failed) \cup RecordedIn(section, fs.not_found) :
          n \notin DOMAIN map
    /\ ValuesInferred(map, section, outs)

\* C25: in every result of extract_fields the keys of priority_fields are exactly
\* the priority-section names recorded as extracted, the keys of extra_metadata
\* exactly the extra-section names recorded as extracted, a field recorded as
\* not_found or failed has no entry in the map of its section, and every stored
\* value is the inferred value of a non-blank match, never "" or None.
C25_MapsAgreeWithStatus ==
    pc = "returned" =>
        /\ MapAgrees(result.v.priority_fields, site_config.priority_fields,
                     result.v.fields_status,
                     [i \in DOMAIN site_config.priority_fields |->
                         ExtractorOf(site_config.priority_fields[i])])
        /\ MapAgrees(result.v.extra_metadata, site_config.extra_fields,
                     result.v.fields_status,
                     [i \in DOMAIN site_config.extra_fields |->
                         ExtractorOf(site_config.extra_fields[i])])

(***************************************************************************)
(* Properties of the values extract_fields stores for many matches         *)
(***************************************************************************)
\* the field's rule is a selector that matches at least two nodes with text
ManyMatch(nodes, f) ==
    /\ ~NoRule(f.rule)
    /\ parse_rule(f.rule)[1] = "css"
    /\ IsName(parse_rule(f.rule)[2])
    /\ Len(Survivors(nodes, parse_rule(f.rule)[2])) >= 2

\* the map stores for the field the list of its matched texts
StoresMatches(map, nodes, f) ==
    /\ f.name \in DOMAIN map
    /\ SameValue(map[f.name], PyList(Survivors(nodes, parse_rule(f.rule)[2])))

\* C26: join-then-infer round trip.  When a selector matches n >= 2 nodes with
\* non-empty text, the value stored for the field is the list of exactly those n
\* trimmed texts in document order.
C26_JoinInferRoundTrip ==
    api_locals.extraction_result.t = "result" =>
        \A i \in DOMAIN api_locals.site_config.v.priority_fields :
            ManyMatch(ParseNodes(api_locals.html_content.v),
                      api_locals.site_config.v.priority_fields[i])
                => StoresMatches(api_locals.extraction_result.v.priority_fields,
                                 ParseNodes(api_locals.html_content.v),
                                 api_locals.site_config.v.priority_fields[i])

(***************************************************************************)
(* Properties of the retry policy of fetch_content                         *)
(***************************************************************************)
\* the failures the docstring of fetch_content calls transient
Transient == {"timeout", "connection", "http_5xx"}

\* C27: a failed attempt is followed by another attempt only when the failure is
\* transient (timeout, connection error, HTTP 5xx); an attempt that fails with
\* an HTTP 4xx response is the last one, and the call then raises.
C27_RetryOnlyTransient ==
    /\ \A i \in 1..(Len(fetch_causes) - 1) : fetch_causes[i] \in Transient
    /\ (fetch_causes # <<>> /\ fetch_causes[Len(fetch_causes)] = "http_4xx") =>
          fetch_pc = "raised"

(***************************************************************************)
(* The site registry (scraper_admin/models.py, registry_manager.py)        *)
(***************************************************************************)
MaxSites == 2

\* the values of the enums SiteType and Frequency
SiteTypes == {"fablab", "makerspace", "blog", "other"}

Frequencies == {"daily", "weekly", "monthly"}

RECURSIVE Remove(_, _)
\* str.replace(old, "")
Remove(s, old) ==
    IF Len(s) < Len(old) THEN s
    ELSE IF SubSeq(s, 1, Len(old)) = old THEN Remove(From(s, Len(old) + 1), old)
    ELSE <<Head(s)>> \o Remove(Tail(s), old)

\* line 96: netloc.replace("www.", "").split("/")[0], then line 98:
\* site_id.split(".")[0].lower()
DerivedId(netloc) ==
    Lower(Split(Split(Remove(netloc, <<"w","w","w",".">>), "/")[1], ".")[1])

\* SiteRegistry(...) of lines 109-117 with its __post_init__: the entry, or ValueError
NewSite(site_id, url, site_type, frequency) ==
    IF site_type \notin SiteTypes \/ frequency \notin Frequencies THEN PyExc("ValueError")
    ELSE IF Strip(site_id) = <<>> \/ Strip(url) = <<>> THEN PyExc("ValueError")
    ELSE [t |-> "site",
          v |-> [id |-> site_id, url |-> url, site_type |-> site_type,
                 frequency |-> frequency, active |-> TRUE, last_scraped |-> PyNone]]

\* lines 91-117 of register_site on the loaded registry: the new entry, or ValueError
register_site(sites, url, site_type, frequency) ==
    IF url = <<>> THEN PyExc("ValueError")
    ELSE IF urlparse(url).t = "exc" THEN urlparse(url)
    ELSE IF \E i \in 1..Len(sites) : sites[i].id = DerivedId(urlparse(url).v.netloc)
    THEN PyExc("ValueError")
    ELSE NewSite(DerivedId(urlparse(url).v.netloc), url, site_type, frequency)

\* the rows left by INSERT OR REPLACE INTO sites: rows in conflict on the primary key
\* id or on the unique url go, the new row is added
InsertOrReplaceSite(rows, site) ==
    Append(SelectSeq(rows, LAMBDA r : r.id # site.id /\ r.url # site.url), site)

\* the rows left by UPDATE sites SET ... WHERE id = ?
UpdateSiteRows(rows, site) ==
    [i \in 1..Len(rows) |->
        IF rows[i].id = site.id
        THEN [rows[i] EXCEPT !.site_type = site.site_type, !.frequency = site.frequency,
                             !.active = site.active, !.last_scraped = site.last_scraped]
        ELSE rows[i]]

\* _sync_site_to_db
sync_site_to_db(rows, site, insert) ==
    IF insert THEN InsertOrReplaceSite(rows, site) ELSE UpdateSiteRows(rows, site)

\* the position of the first entry with this id, 0 when there is none (lines 202-206)
FirstSite(sites, site_id) ==
    IF \E i \in 1..Len(sites) : sites[i].id = site_id
    THEN CHOOSE i \in 1..Len(sites) :
             sites[i].id = site_id /\ \A j \in 1..(i - 1) : sites[j].id # site_id
    ELSE 0

\* lines 212-218 for one key of updates: the entry after setattr, or ValueError
ApplyUpdate(site, key, val) ==
    IF key \notin DOMAIN site THEN [t |-> "site", v |-> site]
    ELSE IF key = "site_type" /\ val \notin SiteTypes THEN PyExc("ValueError")
    ELSE IF key = "frequency" /\ val \notin Frequencies THEN PyExc("ValueError")
    ELSE [t |-> "site", v |-> [site EXCEPT ![key] = val]]

\* the urls register_site is called with: ids a, b and a again, no scheme, empty,
\* an unmatched bracket
RegistryUrls ==
    { <<"h","t","t","p","s",":","/","/","a",".","c","o","m">>,
      <<"h","t","t","p","s",":","/","/","w","w","w",".","b",".","c","o","m","/","x">>,
      <<"h","t","t","p",":","/","/","A",".","o","r","g">>,
      <<"a",".","c","o","m">>,
      <<>>,
      <<"h","t","t","p",":","/","/","[">> }

\* the ids the other methods are called with
SiteIds == {<<"a">>, <<"b">>}

\* the registry file does not exist and the sites table is empty
InitRegistry ==
    /\ value = <<>>
    /\ called = ""
    /\ returned = PyNone
    /\ ExtractIdle
    /\ RuleIdle
    /\ CallsIdle
    /\ FetchIdle
    /\ ApiIdle
    /\ RegistryIdle
    /\ ScheduleIdle
    /\ ArchiveIdle

RegistryFrame ==
    UNCHANGED <<inferVars, extractVars, ruleVars, callsVars, fetchVars, apiVars, sched_file,
                sched_db, sched_now, sched_call, procs, results_db, detect_call>>

\* RegistryManager.register_site(url, site_type, description, frequency)
RegisterSite ==
    /\ Len(reg_file) < MaxSites
    /\ \E url \in RegistryUrls, site_type \in {"fablab", "shop"} :
         \E site \in {register_site(reg_file, url, site_type, "daily")} :
            /\ reg_call' = [op |-> "register_site", arg |-> url, out |-> site]
            /\ IF site.t = "exc"
               THEN UNCHANGED <<reg_file, reg_db>>
               ELSE /\ reg_file' = Append(reg_file, site.v)
                    /\ reg_db' = sync_site_to_db(reg_db, site.v, TRUE)
    /\ RegistryFrame

\* update_site(site_id, {key: val}) with the method the call came through
UpdateWith(op, site_id, key, val) ==
    \E i \in {FirstSite(reg_file, site_id)} :
        IF i = 0
        THEN /\ reg_call' = [op |-> op, arg |-> site_id, out |-> PyExc("ValueError")]
             /\ UNCHANGED <<reg_file, reg_db>>
        ELSE \E site \in {ApplyUpdate(reg_file[i], key, val)} :
                /\ reg_call' = [op |-> op, arg |-> site_id, out |-> site]
                /\ IF site.t = "exc"
                   THEN UNCHANGED <<reg_file, reg_db>>
                   ELSE /\ reg_file' = [reg_file EXCEPT ![i] = site.v]
                        /\ reg_db' = sync_site_to_db(reg_db, site.v, FALSE)

\* RegistryManager.update_site(site_id, updates) for updates of one key
UpdateSite ==
    /\ \E site_id \in SiteIds :
          \/ \E val \in BOOLEAN : UpdateWith("update_site", site_id, "active", val)
          \/ \E val \in {"weekly", "hourly"} :
                UpdateWith("update_site", site_id, "frequency", val)
          \/ \E val \in SiteIds : UpdateWith("update_site", site_id, "id", val)
          \/ UpdateWith("update_site", site_id, "owner", "x")
    /\ RegistryFrame

\* RegistryManager.deactivate_site(site_id)
DeactivateSite ==
    /\ \E site_id \in SiteIds : UpdateWith("deactivate_site", site_id, "active", FALSE)
    /\ RegistryFrame

\* RegistryManager.record_scrape(site_id, timestamp)
RecordScrape ==
    /\ \E site_id \in SiteIds :
          UpdateWith("record_scrape", site_id, "last_scraped", PyStr(<<"t">>))
    /\ RegistryFrame

NextRegistry == RegisterSite \/ UpdateSite \/ DeactivateSite \/ RecordScrape

SpecRegistry == InitRegistry /\ [][NextRegistry]_vars

\* no two entries of the registry file have the same id
UniqueSiteIds ==
    \A i, j \in 1..Len(reg_file) : reg_file[i].id = reg_file[j].id => i = j

\* the step is a register_site call for a url whose derived id is in the registry
RegistersPresentId ==
    /\ reg_call'.op = "register_site"
    /\ reg_call'.arg # <<>>
    /\ urlparse(reg_call'.arg).t # "exc"
    /\ \E i \in 1..Len(reg_file) :
          reg_file[i].id = DerivedId(urlparse(reg_call'.arg).v.netloc)

\* C22: after any sequence of register_site, update_site, deactivate_site and
\* record_scrape calls no two registry entries have the same id, and register_site
\* for a url whose derived id is present, active or not, raises ValueError and
\* leaves the registry unchanged
C22_SiteIdsUnique ==
    /\ []UniqueSiteIds
    /\ [][RegistersPresentId =>
            /\ reg_call'.out = PyExc("ValueError")
            /\ reg_file' = reg_file
            /\ reg_db' = reg_db]_vars

(***************************************************************************)
(* Schedules (scraper_admin/schedule_manager.py)                           *)
(*                                                                         *)
(* A datetime is [year, month, day, minute], minute counted from midnight; *)
(* the stored ISO strings are written as the datetimes they encode.        *)
(***************************************************************************)
DateTime(y, mo, d, mi) == [year |-> y, month |-> mo, day |-> d, minute |-> mi]

PyDateTime(dt) == [t |-> "datetime", v |-> dt]

IsLeap(y) == y % 4 = 0 /\ (y % 100 # 0 \/ y % 400 = 0)

\* the days of month mo of year y
DaysIn(y, mo) ==
    IF mo = 2 THEN (IF IsLeap(y) THEN 29 ELSE 28)
    ELSE IF mo \in {4, 6, 9, 11} THEN 30
    ELSE 31

\* the position of a datetime on the time line: a < b iff Instant(a) < Instant(b)
Instant(dt) == ((dt.year * 12 + dt.month) * 31 + dt.day) * 1440 + dt.minute

\* dt.replace(year=y, month=mo): ValueError when the month has no such day
ReplaceMonth(dt, y, mo) ==
    IF dt.day > DaysIn(y, mo) THEN PyExc("ValueError")
    ELSE PyDateTime([dt EXCEPT !.year = y, !.month = mo])

\* dt + timedelta(days=1)
NextDay(dt) ==
    IF dt.day < DaysIn(dt.year, dt.month) THEN [dt EXCEPT !.day = @ + 1]
    ELSE IF dt.month < 12 THEN [dt EXCEPT !.day = 1, !.month = @ + 1]
    ELSE [dt EXCEPT !.day = 1, !.month = 1, !.year = @ + 1]

RECURSIVE AddDays(_, _)
\* dt + timedelta(days=n)
AddDays(dt, n) == IF n = 0 THEN dt ELSE AddDays(NextDay(dt), n - 1)

\* line 51 and the hour and minute of line 54: hour, minute = map(int,
\* time_of_day.split(":")) as minutes from midnight; [ok |-> FALSE] for ValueError
TimeOfDay(tod) ==
    IF Len(Split(tod, ":")) # 2 THEN [ok |-> FALSE, n |-> 0]
    ELSE IF ~ParseInt(Split(tod, ":")[1]).ok \/ ~ParseInt(Split(tod, ":")[2]).ok
    THEN [ok |-> FALSE, n |-> 0]
    ELSE IF \/ ParseInt(Split(tod, ":")[1]).n \notin 0..23
            \/ ParseInt(Split(tod, ":")[2]).n \notin 0..59
    THEN [ok |-> FALSE, n |-> 0]
    ELSE [ok |-> TRUE,
          n |-> ParseInt(Split(tod, ":")[1]).n * 60 + ParseInt(Split(tod, ":")[2]).n]

\* lines 57-67: the next occurrence after a time of day that has passed
NextOccurrence(next_run, frequency) ==
    IF frequency = "daily" THEN PyDateTime(AddDays(next_run, 1))
    ELSE IF frequency = "weekly" THEN PyDateTime(AddDays(next_run, 7))
    ELSE IF frequency = "monthly"
    THEN IF next_run.month = 12 THEN ReplaceMonth(next_run, next_run.year + 1, 1)
         ELSE ReplaceMonth(next_run, next_run.year, next_run.month + 1)
    ELSE PyDateTime(next_run)

\* Schedule._calculate_next_run at the time now
calculate_next_run(frequency, time_of_day, now) ==
    IF ~TimeOfDay(time_of_day).ok THEN PyExc("ValueError")
    ELSE IF Instant([now EXCEPT !.minute = TimeOfDay(time_of_day).n]) <= Instant(now)
    THEN NextOccurrence([now EXCEPT !.minute = TimeOfDay(time_of_day).n], frequency)
    ELSE PyDateTime([now EXCEPT !.minute = TimeOfDay(time_of_day).n])

\* Schedule(site_id, frequency, time_of_day) at the time now, or ValueError
NewSchedule(site_id, frequency, time_of_day, now) ==
    IF frequency \notin Frequencies THEN PyExc("ValueError")
    ELSE IF calculate_next_run(frequency, time_of_day, now).t = "exc"
    THEN PyExc("ValueError")
    ELSE [t |-> "schedule",
          v |-> [site_id |-> site_id, frequency |-> frequency,
                 time_of_day |-> time_of_day,
                 next_run |-> calculate_next_run(frequency, time_of_day, now).v,
                 last_run |-> PyNone]]

\* whether a schedule of the list is for this site
Scheduled(schedules, site_id) == \E i \in 1..Len(schedules) : schedules[i].site_id = site_id

\* schedule_site without the test of lines 173-175
schedule_site_unchecked(schedules, site_id, frequency, time_of_day, now) ==
    NewSchedule(site_id, frequency, time_of_day, now)

\* lines 171-178 of schedule_site on the loaded list: ValueError, or the new schedule
schedule_site(schedules, site_id, frequency, time_of_day, now) ==
    IF Scheduled(schedules, site_id) THEN PyExc("ValueError")
    ELSE NewSchedule(site_id, frequency, time_of_day, now)

\* lines 198-204 of unschedule_site on the loaded list: ValueError, or the list left
unschedule_site(schedules, site_id) ==
    IF ~Scheduled(schedules, site_id) THEN PyExc("ValueError")
    ELSE [t |-> "list", v |-> SelectSeq(schedules, LAMBDA x : x.site_id # site_id)]

\* the position of the first schedule of the site, 0 when there is none
FirstSchedule(schedules, site_id) ==
    IF Scheduled(schedules, site_id)
    THEN CHOOSE i \in 1..Len(schedules) :
             /\ schedules[i].site_id = site_id
             /\ \A j \in 1..(i - 1) : schedules[j].site_id # site_id
    ELSE 0

\* lines 314-325 of mark_run_complete: the next run counted from now
NextRunFrom(now, frequency) ==
    IF frequency = "daily" THEN PyDateTime(AddDays(now, 1))
    ELSE IF frequency = "weekly" THEN PyDateTime(AddDays(now, 7))
    ELSE IF frequency = "monthly"
    THEN IF now.month = 12 THEN ReplaceMonth(now, now.year + 1, 1)
         ELSE ReplaceMonth(now, now.year, now.month + 1)
    ELSE PyDateTime(now)

\* lines 298-327 of mark_run_complete on the loaded list: ValueError, or the
\* schedule with its new last_run and next_run
mark_run_complete(schedules, site_id, now) ==
    IF FirstSchedule(schedules, site_id) = 0 THEN PyExc("ValueError")
    ELSE IF NextRunFrom(now, schedules[FirstSchedule(schedules, site_id)].frequency).t = "exc"
    THEN PyExc("ValueError")
    ELSE [t |-> "schedule",
          v |-> [schedules[FirstSchedule(schedules, site_id)] EXCEPT
                    !.last_run = PyDateTime(now),
                    !.next_run = NextRunFrom(now,
                        schedules[FirstSchedule(schedules, site_id)].frequency).v]]

\* ScheduleManager.is_due_for_run at the time now
is_due_for_run(schedules, site_id, now) ==
    /\ FirstSchedule(schedules, site_id) # 0
    /\ Instant(now) >= Instant(schedules[FirstSchedule(schedules, site_id)].next_run)

\* the rows left by INSERT OR REPLACE INTO schedules, site_id being unique
InsertOrReplaceSchedule(rows, schedule) ==
    Append(SelectSeq(rows, LAMBDA r : r.site_id # schedule.site_id), schedule)

\* the rows left by UPDATE schedules SET ... WHERE site_id = ?
UpdateScheduleRows(rows, schedule) ==
    [i \in 1..Len(rows) |-> IF rows[i].site_id = schedule.site_id THEN schedule ELSE rows[i]]

\* _sync_schedule_to_db
sync_schedule_to_db(rows, schedule, insert) ==
    IF insert THEN InsertOrReplaceSchedule(rows, schedule)
    ELSE UpdateScheduleRows(rows, schedule)

\* _delete_schedule_from_db
delete_schedule_from_db(rows, site_id) == SelectSeq(rows, LAMBDA r : r.site_id # site_id)

\* the time the manager is created at, and the times of the calls made later
StartTime == DateTime(2025, 1, 15, 600)

Clock ==
    { DateTime(2025, 1, 20, 600), DateTime(2025, 1, 31, 600), DateTime(2025, 2, 28, 600),
      DateTime(2025, 12, 15, 600), DateTime(2025, 12, 31, 600), DateTime(2026, 1, 31, 600) }

\* the frequency and time_of_day arguments: the three frequencies and one that is
\* none, a time of day before and one after the time of the calls
FrequencyArgs == Frequencies \cup {"hourly"}

TimeOfDayArgs == {<<"0","9",":","0","0">>, <<"1","1",":","0","0">>}

\* the schedules file does not exist and the schedules table is empty
InitSchedule ==
    /\ value = <<>>
    /\ called = ""
    /\ returned = PyNone
    /\ ExtractIdle
    /\ RuleIdle
    /\ CallsIdle
    /\ FetchIdle
    /\ ApiIdle
    /\ RegistryIdle
    /\ ArchiveIdle
    /\ sched_file = <<>>
    /\ sched_db = <<>>
    /\ sched_now = StartTime
    /\ sched_call = NoCall
    /\ procs = <<>>

ScheduleFrame ==
    UNCHANGED <<inferVars, extractVars, ruleVars, callsVars, fetchVars, apiVars, reg_file,
                reg_db, reg_call, results_db, detect_call>>

\* ScheduleManager.schedule_site(site_id, frequency, time_of_day)
ScheduleSite ==
    /\ \E now \in {c \in Clock : Instant(c) > Instant(sched_now)}, site_id \in SiteIds,
          frequency \in FrequencyArgs, time_of_day \in TimeOfDayArgs :
         \E schedule \in {schedule_site(sched_file, site_id, frequency, time_of_day, now)} :
            /\ sched_now' = now
            /\ sched_call' = [op |-> "schedule_site", arg |-> site_id, out |-> schedule,
                               frequency |-> frequency]
            /\ IF schedule.t = "exc"
               THEN UNCHANGED <<sched_file, sched_db>>
               ELSE /\ sched_file' = Append(sched_file, schedule.v)
                    /\ sched_db' = sync_schedule_to_db(sched_db, schedule.v, TRUE)
    /\ UNCHANGED procs
    /\ ScheduleFrame

\* ScheduleManager.unschedule_site(site_id)
UnscheduleSite ==
    /\ \E now \in {c \in Clock : Instant(c) > Instant(sched_now)}, site_id \in SiteIds :
         \E left \in {unschedule_site(sched_file, site_id)} :
            /\ sched_now' = now
            /\ IF left.t = "exc"
               THEN /\ sched_call' = [op |-> "unschedule_site", arg |-> site_id, out |-> left]
                    /\ UNCHANGED <<sched_file, sched_db>>
               ELSE /\ sched_call' = [op |-> "unschedule_site", arg |-> site_id,
                                      out |-> PyNone]
                    /\ sched_file' = left.v
                    /\ sched_db' = delete_schedule_from_db(sched_db, site_id)
    /\ UNCHANGED procs
    /\ ScheduleFrame

\* ScheduleManager.mark_run_complete(site_id)
MarkRunComplete ==
    /\ \E now \in {c \in Clock : Instant(c) > Instant(sched_now)}, site_id \in SiteIds :
         \E schedule \in {mark_run_complete(sched_file, site_id, now)} :
            /\ sched_now' = now
            /\ IF schedule.t = "exc"
               THEN /\ sched_call' = [op |-> "mark_run_complete", arg |-> site_id,
                                      out |-> schedule]
                    /\ UNCHANGED <<sched_file, sched_db>>
               ELSE /\ sched_call' = [op |-> "mark_run_complete", arg |-> site_id,
                                      out |-> PyNone]
                    /\ sched_file' = [sched_file EXCEPT
                                         ![FirstSchedule(sched_file, site_id)] = schedule.v]
                    /\ sched_db' = sync_schedule_to_db(sched_db, schedule.v, FALSE)
    /\ UNCHANGED procs
    /\ ScheduleFrame

NextSchedule == ScheduleSite \/ UnscheduleSite \/ MarkRunComplete

SpecSchedule == InitSchedule /\ [][NextSchedule]_vars

\* no two entries of the list are for the same site
OnePerSite(schedules) ==
    \A i, j \in 1..Len(schedules) : schedules[i].site_id = schedules[j].site_id => i = j

\* the step is a call of the method for this site
CallOf(op, site_id) == sched_call'.op = op /\ sched_call'.arg = site_id

\* the step raised ValueError and left the schedules file and table as they were
RaisedUnchanged ==
    /\ sched_call'.out = PyExc("ValueError")
    /\ sched_file' = sched_file
    /\ sched_db' = sched_db

\* C21: after any sequence of schedule_site, unschedule_site and mark_run_complete
\* calls the file and the table hold at most one schedule per site_id; schedule_site
\* for a scheduled site raises ValueError and leaves the stored schedules unchanged;
\* unschedule_site for a site without a schedule raises ValueError and changes
\* nothing
C21_NoDuplicateSchedules ==
    /\ [](OnePerSite(sched_file) /\ OnePerSite(sched_db))
    /\ [][\A site_id \in SiteIds :
            /\ (CallOf("schedule_site", site_id) /\ Scheduled(sched_file, site_id)) =>
                  RaisedUnchanged
            /\ (CallOf("unschedule_site", site_id) /\ ~Scheduled(sched_file, site_id)) =>
                  RaisedUnchanged]_vars

\* schedule_site was refused for a site whose schedule, already marked as run, is
\* still in the file next to another site's schedule
C21_Witness ==
    /\ sched_call.op = "schedule_site"
    /\ sched_call.out = PyExc("ValueError")
    /\ Len(sched_file) = 2
    /\ \E i \in 1..Len(sched_file) :
          /\ sched_file[i].site_id = sched_call.arg
          /\ sched_file[i].last_run.t = "datetime"

\* the schedule of the site in the list
ScheduleOf(schedules, site_id) == schedules[FirstSchedule(schedules, site_id)]

\* the step returned normally, stored the time of the call as last_run and a
\* next_run after the one stored before, and the site is not due at that time
Advanced(site_id) ==
    /\ sched_call'.out = PyNone
    /\ Scheduled(sched_file', site_id)
    /\ ScheduleOf(sched_file', site_id).last_run = PyDateTime(sched_now')
    /\ Instant(ScheduleOf(sched_file', site_id).next_run) >
          Instant(ScheduleOf(sched_file, site_id).next_run)
    /\ ~is_due_for_run(sched_file', site_id, sched_now')

\* the step created a schedule whose next_run is after the time of the call
CreatedAhead ==
    /\ sched_call'.out.t = "schedule"
    /\ Instant(sched_call'.out.v.next_run) > Instant(sched_now')

\* C28: mark_run_complete for a scheduled site succeeds for every frequency at
\* every date and time, sets last_run to the current time and next_run to an instant
\* after the previous next_run, so that is_due_for_run is false right afterwards; a
\* newly created Schedule has next_run after its creation time; for a site without a
\* schedule mark_run_complete raises ValueError and changes nothing
C28_MarkRunAdvances ==
    [][\A site_id \in SiteIds :
          /\ CallOf("mark_run_complete", site_id) =>
                IF Scheduled(sched_file, site_id) THEN Advanced(site_id)
                ELSE RaisedUnchanged
          /\ (/\ CallOf("schedule_site", site_id)
              /\ ~Scheduled(sched_file, site_id)
              /\ sched_call'.frequency \in Frequencies) => CreatedAhead]_vars

(***************************************************************************)
(* schedule_site and unschedule_site called by concurrent processes, each  *)
(* with its own ScheduleManager on the same file and database, each for a  *)
(* site of its own. A step is one access to the file or to the table.      *)
(***************************************************************************)
ProcIds == {1, 2}

ProcSite(p) == IF p = 1 THEN <<"a">> ELSE <<"b">>

\* a process between two calls; done is the method of its last call that returned
\* normally
ProcIdle(done) ==
    [op |-> "", pc |-> "idle", loaded |-> <<>>, schedule |-> PyNone, out |-> PyNone,
     done |-> done]

InitProcs ==
    /\ value = <<>>
    /\ called = ""
    /\ returned = PyNone
    /\ ExtractIdle
    /\ RuleIdle
    /\ CallsIdle
    /\ FetchIdle
    /\ ApiIdle
    /\ RegistryIdle
    /\ ArchiveIdle
    /\ sched_file = <<>>
    /\ sched_db = <<>>
    /\ sched_now = StartTime
    /\ sched_call = NoCall
    /\ procs = [p \in ProcIds |-> ProcIdle("")]

ProcFrame == UNCHANGED <<sched_now, sched_call>> /\ ScheduleFrame

\* lines 171-177 of schedule_site: load_schedules, the test, the new Schedule
\* appended to the loaded list
ProcScheduleLoad(p) ==
    /\ procs[p].pc = "idle"
    /\ \E schedule \in {schedule_site(sched_file, ProcSite(p), "daily",
                                      <<"0","9",":","0","0">>, sched_now)} :
          procs' = [procs EXCEPT ![p] =
                       IF schedule.t = "exc"
                       THEN [ProcIdle(procs[p].done) EXCEPT !.out = schedule]
                       ELSE [op |-> "schedule_site", pc |-> "save",
                             loaded |-> Append(sched_file, schedule.v),
                             schedule |-> schedule.v, out |-> PyNone,
                             done |-> procs[p].done]]
    /\ UNCHANGED <<sched_file, sched_db>>
    /\ ProcFrame

\* lines 198-204 of unschedule_site: load_schedules, the filter, the test
ProcUnscheduleLoad(p) ==
    /\ procs[p].pc = "idle"
    /\ \E left \in {unschedule_site(sched_file, ProcSite(p))} :
          procs' = [procs EXCEPT ![p] =
                       IF left.t = "exc"
                       THEN [ProcIdle(procs[p].done) EXCEPT !.out = left]
                       ELSE [op |-> "unschedule_site", pc |-> "save", loaded |-> left.v,
                             schedule |-> PyNone, out |-> PyNone,
                             done |-> procs[p].done]]
    /\ UNCHANGED <<sched_file, sched_db>>
    /\ ProcFrame

\* save_schedules(schedules): the file is rewritten with the list of the process
ProcSave(p) ==
    /\ procs[p].pc = "save"
    /\ sched_file' = procs[p].loaded
    /\ procs' = [procs EXCEPT ![p].pc = "sync"]
    /\ UNCHANGED sched_db
    /\ ProcFrame

\* _sync_schedule_to_db(schedule, insert=True) or _delete_schedule_from_db(site_id),
\* and the return of the call
ProcSync(p) ==
    /\ procs[p].pc = "sync"
    /\ sched_db' = IF procs[p].op = "schedule_site"
                   THEN sync_schedule_to_db(sched_db, procs[p].schedule, TRUE)
                   ELSE delete_schedule_from_db(sched_db, ProcSite(p))
    /\ procs' = [procs EXCEPT ![p] = ProcIdle(procs[p].op)]
    /\ UNCHANGED sched_file
    /\ ProcFrame

NextProcs ==
    \E p \in ProcIds :
        ProcScheduleLoad(p) \/ ProcUnscheduleLoad(p) \/ ProcSave(p) \/ ProcSync(p)

SpecProcs == InitProcs /\ [][NextProcs]_vars

\* the site ids of the entries of a list
IdsOf(rows) == {rows[i].site_id : i \in 1..Len(rows)}

\* every call made has returned
Quiet == \A p \in ProcIds : procs[p].pc = "idle"

\* C30: once the schedule_site and unschedule_site calls of concurrent processes
\* for different sites have completed, under any interleaving, the site ids of the
\* schedules file are those of the schedules table, and every site whose last
\* completed call was a successful schedule_site is in list_schedules
C30_StoresAgree ==
    Quiet =>
        /\ IdsOf(sched_file) = IdsOf(sched_db)
        /\ \A p \in ProcIds :
              procs[p].done = "schedule_site" => ProcSite(p) \in IdsOf(sched_file)

(***************************************************************************)
(* The result archive and change detection (scraper_admin/                 *)
(* result_archiver.py, change_detector.py). A row of results carries the   *)
(* result_fields rows of its id as fields_status; its id is its position.  *)
(***************************************************************************)
MaxRuns == 3

\* the urls archived, in the order of the SQL text comparison, and the dates of
\* the runs, in the order of time
ArchiveUrls == <<"https://a.com", "https://b.com">>

RunDates == <<"2025-01-20", "2025-01-21">>

\* the fields_status of the archived result dicts
StatusSamples ==
    { [extracted |-> <<"name">>, failed |-> <<>>, not_found |-> <<"location">>],
      [extracted |-> <<"name", "location">>, failed |-> <<>>, not_found |-> <<>>],
      [extracted |-> <<"name">>, failed |-> <<"location">>, not_found |-> <<>>] }

\* lines 101-111 of archive_result and the INSERT of _archive_to_db on run_date
ResultRow(url, run_date, fields_status) ==
    [url |-> url, run_date |-> run_date, success |-> fields_status.extracted # <<>>,
     extracted_count |-> Len(fields_status.extracted),
     failed_count |-> Len(fields_status.failed),
     fields_status |-> fields_status]

RECURSIVE Descending(_)
\* the ids of a set, the highest first (ORDER BY id DESC)
Descending(ids) ==
    IF ids = {} THEN <<>>
    ELSE <<CHOOSE i \in ids : \A j \in ids : j <= i>> \o
         Descending(ids \ {CHOOSE i \in ids : \A j \in ids : j <= i})

RECURSIVE OrderedByUrl(_, _, _)
\* the ids of the rows of the date, url by url from position k of ArchiveUrls on
OrderedByUrl(rows, date, k) ==
    IF k > Len(ArchiveUrls) THEN <<>>
    ELSE Descending({i \in 1..Len(rows) :
                        rows[i].url = ArchiveUrls[k] /\ rows[i].run_date = date})
         \o OrderedByUrl(rows, date, k + 1)

\* ResultArchiver.get_results_by_date: SELECT ... WHERE run_date = ? ORDER BY url,
\* id DESC, as the ids of the rows
get_results_by_date(rows, date) == OrderedByUrl(rows, date, 1)

\* lines 51-59 of compare_runs: the first result of the list for the url, 0 for None
FirstForUrl(rows, ids, url) ==
    IF \E k \in 1..Len(ids) : rows[ids[k]].url = url
    THEN ids[CHOOSE k \in 1..Len(ids) :
                 /\ rows[ids[k]].url = url
                 /\ \A m \in 1..(k - 1) : rows[ids[m]].url # url]
    ELSE 0

\* set(list)
SetOf(list) == {list[i] : i \in 1..Len(list)}

\* ChangeDetector._compare_field_sets
compare_field_sets(fields1, fields2) ==
    [new_fields |-> SetOf(fields2.extracted) \ SetOf(fields1.extracted),
     lost_fields |-> SetOf(fields1.extracted) \ SetOf(fields2.extracted),
     newly_failed |-> SetOf(fields2.failed) \ SetOf(fields1.failed),
     newly_working |-> SetOf(fields1.failed) \ SetOf(fields2.failed)]

\* ChangeDetector._compare_metadata, the keys detect_changes reads
compare_metadata(result1, result2) ==
    [success_changed |-> result1.success # result2.success,
     success_before |-> result1.success,
     success_after |-> result2.success,
     extracted_count_before |-> result1.extracted_count,
     extracted_count_after |-> result2.extracted_count]

\* ChangeDetector.compare_runs: the error dict, or the comparison
compare_runs(rows, url, date1, date2) ==
    IF FirstForUrl(rows, get_results_by_date(rows, date1), url) = 0
    THEN [error |-> TRUE]
    ELSE IF FirstForUrl(rows, get_results_by_date(rows, date2), url) = 0
    THEN [error |-> TRUE]
    ELSE [error |-> FALSE,
          result1_id |-> FirstForUrl(rows, get_results_by_date(rows, date1), url),
          result2_id |-> FirstForUrl(rows, get_results_by_date(rows, date2), url),
          comparison |-> compare_field_sets(
              rows[FirstForUrl(rows, get_results_by_date(rows, date1), url)].fields_status,
              rows[FirstForUrl(rows, get_results_by_date(rows, date2), url)].fields_status),
          metadata_changes |-> compare_metadata(
              rows[FirstForUrl(rows, get_results_by_date(rows, date1), url)],
              rows[FirstForUrl(rows, get_results_by_date(rows, date2), url)])]

\* one dict of the list detect_changes returns: its type, and the fields its
\* description names
Change(type, fields) == [type |-> type, fields |-> fields]

\* `changes.append(...)` under `if cond`
AppendIf(cond, change) == IF cond THEN <<change>> ELSE <<>>

\* lines 158-220 of detect_changes: the changes of a comparison
ChangesOf(comp, meta) ==
    AppendIf(comp.new_fields # {}, Change("extraction_improved", comp.new_fields))
    \o AppendIf(comp.lost_fields # {}, Change("extraction_regression", comp.lost_fields))
    \o AppendIf(comp.newly_failed # {}, Change("selector_failure", comp.newly_failed))
    \o AppendIf(comp.newly_working # {}, Change("selector_recovery", comp.newly_working))
    \o AppendIf(meta.success_changed /\ meta.success_after /\ ~meta.success_before,
                Change("success_recovered", {}))
    \o AppendIf(meta.success_changed /\ ~meta.success_after /\ meta.success_before,
                Change("success_failure", {}))
    \o AppendIf(meta.extracted_count_after > meta.extracted_count_before,
                Change("extraction_increase", {}))
    \o AppendIf(meta.extracted_count_after < meta.extracted_count_before,
                Change("extraction_decrease", {}))

\* ChangeDetector.detect_changes on a comparison
ChangesOrNone(comparison) ==
    IF comparison.error THEN <<Change("error", {})>>
    ELSE IF ChangesOf(comparison.comparison, comparison.metadata_changes) # <<>>
    THEN ChangesOf(comparison.comparison, comparison.metadata_changes)
    ELSE <<Change("no_changes", {})>>

\* nothing is archived
InitArchive ==
    /\ value = <<>>
    /\ called = ""
    /\ returned = PyNone
    /\ ExtractIdle
    /\ RuleIdle
    /\ CallsIdle
    /\ FetchIdle
    /\ ApiIdle
    /\ RegistryIdle
    /\ ScheduleIdle
    /\ ArchiveIdle

ArchiveFrame ==
    UNCHANGED <<inferVars, extractVars, ruleVars, callsVars, fetchVars, apiVars, reg_file,
                reg_db, reg_call, sched_file, sched_db, sched_now, sched_call, procs>>

\* ResultArchiver.archive_result(url, toml_content, result_dict) on a day not
\* before the day of the last run archived
ArchiveResult ==
    /\ Len(results_db) < MaxRuns
    /\ \E k \in 1..Len(ArchiveUrls), d \in 1..Len(RunDates), fields_status \in StatusSamples :
          /\ results_db # <<>> => results_db[Len(results_db)].run_date \in
                                     {RunDates[e] : e \in 1..d}
          /\ results_db' = Append(results_db,
                                  ResultRow(ArchiveUrls[k], RunDates[d], fields_status))
    /\ UNCHANGED detect_call
    /\ ArchiveFrame

\* ChangeDetector.detect_changes(url, date1, date2)
DetectChanges ==
    /\ \E k \in 1..Len(ArchiveUrls), d1, d2 \in 1..Len(RunDates) :
         \E comparison \in {compare_runs(results_db, ArchiveUrls[k], RunDates[d1],
                                         RunDates[d2])} :
            detect_call' = [op |-> "detect_changes",
                            arg |-> [url |-> ArchiveUrls[k], date1 |-> RunDates[d1],
                                     date2 |-> RunDates[d2]],
                            out |-> ChangesOrNone(comparison)]
    /\ UNCHANGED results_db
    /\ ArchiveFrame

NextArchive == ArchiveResult \/ DetectChanges

SpecArchive == InitArchive /\ [][NextArchive]_vars

\* rows i and j are the two results archived for the url, i before j
TheTwoRuns(url, i, j) ==
    /\ i < j
    /\ {k \in 1..Len(results_db) : results_db[k].url = url} = {i, j}

\* the list has a change of the type that names exactly these fields
Reports(changes, type, fields) ==
    \E k \in 1..Len(changes) : changes[k].type = type /\ changes[k].fields = fields

\* the changes reported for runs i and j say how the later differs from the earlier
ComparesRuns(changes, i, j) ==
    /\ SetOf(results_db[j].fields_status.extracted) \
          SetOf(results_db[i].fields_status.extracted) # {} =>
            Reports(changes, "extraction_improved",
                    SetOf(results_db[j].fields_status.extracted) \
                       SetOf(results_db[i].fields_status.extracted))
    /\ SetOf(results_db[i].fields_status.extracted) \
          SetOf(results_db[j].fields_status.extracted) # {} =>
            Reports(changes, "extraction_regression",
                    SetOf(results_db[i].fields_status.extracted) \
                       SetOf(results_db[j].fields_status.extracted))
    /\ SetOf(results_db[j].fields_status.failed) \
          SetOf(results_db[i].fields_status.failed) # {} =>
            Reports(changes, "selector_failure",
                    SetOf(results_db[j].fields_status.failed) \
                       SetOf(results_db[i].fields_status.failed))
    /\ Reports(changes, "no_changes", {}) =>
          results_db[i].fields_status = results_db[j].fields_status

\* C29: when two results have been archived for a url, detect_changes called with
\* the dates of the two runs compares the earlier with the later: it reports
\* extraction_improved naming the fields only the later extracted,
\* extraction_regression and selector_failure for the fields lost and newly failed,
\* also when both runs have the same date, and no_changes only when the two runs do
\* not differ
C29_DetectsChangesBetweenRuns ==
    [][(detect_call'.op = "detect_changes" /\ results_db' = results_db) =>
          \A i, j \in 1..Len(results_db) :
              (/\ TheTwoRuns(detect_call'.arg.url, i, j)
               /\ results_db[i].run_date = detect_call'.arg.date1
               /\ results_db[j].run_date = detect_call'.arg.date2) =>
                    ComparesRuns(detect_call'.out, i, j)]_vars

====
